---------------------------- MODULE Spec2Model ----------------------------
(***************************************************************************)
(* A model of wgpu-core's reference counting (lib.rs) and of its queue     *)
(* engine (device/queue.rs): staged writes, command-buffer stitching,      *)
(* submission and reclamation.                                             *)
(*                                                                         *)
(* Three specifications share the module:                                  *)
(*   SpecRefCount   threads cloning and dropping the clones of one         *)
(*                  RefCount, one atomic operation per step;               *)
(*   SpecLifeGuard  LifeGuard::use_at applied to arbitrary indices;        *)
(*   Spec           one device: queue_write_buffer, queue_submit and the   *)
(*                  environment they run in.                               *)
(***************************************************************************)
EXTENDS Integers, Sequences, FiniteSets, TLC

VARIABLES
    \* ---- RefCount (lib.rs 62-112) ----
    rc_count,       \* the value of the shared AtomicUsize
    rc_alloc,       \* "live" | "freed": the Box behind the pointer
    rc_frees,       \* how many times Box::from_raw has released it
    rc_uaf,         \* an atomic operation touched the Box after its release
    rc_panic,       \* clone's assert!(old_size < MAX) failed
    rc_held,        \* thread -> number of live RefCount values it owns
    rc_pc,          \* thread -> "idle" | "free" (inside rich_drop_inner,
                    \*           after fetch_sub returned 1, before from_raw)
    rc_ret,         \* thread -> what its last rich_drop_outer returned
                    \*           ("none" before its first drop)
    \* ---- LifeGuard (lib.rs 166-190) ----
    lg_guard,       \* [ref_count : BOOLEAN, submission_index : Nat]
    lg_max,         \* the largest index use_at was ever called with
    lg_prev,        \* submission_index before the last use_at
    lg_ret,         \* what the last use_at returned
    \* ---- Device (device/queue.rs) ----
    active_submission_index,    \* device.active_submission_index
    pending_writes,     \* device.pending_writes: the open command buffer (the
                        \*   copies recorded in it) and the staging buffers
    temp_suspected,     \* device.temp_suspected: buffer handles
    trackers,           \* device.trackers.buffers: handle -> tracked usage
    buffers,            \* hub.buffers: handle -> [live, life_guard, map_state]
    command_buffers,    \* hub.command_buffers: handle ->
                        \*   [registered, raw, used_swap_chain]
    swap_chain,         \* [acquired_view_id, acquired_framebuffers,
                        \*  active_submission_index]
    queue_log,          \* what queues[0].submit was handed and the native queue
                        \*   has not completed yet, in order
    gpu_done,           \* how many submissions the native queue has completed
    life_tracker,       \* the submission records of track_submission
    staging_count,      \* staging buffers created by prepare_stage so far
    textures,           \* hub.textures: handle -> [life_guard]
    texture_trackers,   \* device.trackers.textures: handle -> tracked usage
    \* ---- Locks of the hub and the device (hub tables, trackers mutex) ----
    lk_op,          \* thread -> the public operation it is inside ("idle": none)
    lk_pc,          \* thread -> how many lock steps of its operation it has done
    lk_held,        \* thread -> the guards it holds, in the order acquired
    \* ---- queue_write_texture, the copy into the staging buffer (365-383) ----
    copy_call,      \* the extent, data layout and data length of the last call
    copy_ret,       \* [err, stage]: how it ended and the bytes of the mapping
    \* ---- get_lowest_common_denom, align_to and the row pitch (322-326, 629-656) ----
    math_call,      \* [op, a, b, c, checked]: the last call and its arguments
    math_ret,       \* [err, value]: how it ended and what it returned
    \* ---- get_greatest_common_divisor (638-649) ----
    gcd_in,         \* [a, b]: the arguments of the call
    gcd_a,          \* the local a
    gcd_b,          \* the local b
    gcd_pc,         \* "idle" | "loop" | "done" | "panic"
    gcd_ret,        \* the value returned
    \* ---- device.trace (feature "trace"; 174-187, 282-295, 474-481) ----
    trace,          \* the actions added to the trace, each with the engine
                    \*   state at the moment it was added
    trace_commands, \* command buffer -> whether cmdbuf.commands is still Some
    \* ---- the trace player (player/src/lib.rs 121-289) ----
    pl_ids,         \* resource kind -> "free" | "live" | "pending": the ID the
                    \*   trace uses for that kind; pending: dropped, not reclaimed
    pl_action,      \* the action process() replayed last
    pl_calls,       \* the calls on Global it made for it, in order
    pl_collision    \* a creation was given an ID that was not free

rcVars == <<rc_count, rc_alloc, rc_frees, rc_uaf, rc_panic, rc_held, rc_pc, rc_ret>>
lgVars == <<lg_guard, lg_max, lg_prev, lg_ret>>
devVars == <<active_submission_index, pending_writes, temp_suspected, trackers, buffers,
             command_buffers, swap_chain, queue_log, gpu_done, life_tracker,
             staging_count>>
texVars == <<textures, texture_trackers>>
lockVars == <<lk_op, lk_pc, lk_held>>
coreVars == <<rcVars, lgVars, devVars, texVars, lockVars>>
copyVars == <<copy_call, copy_ret>>
mathVars == <<math_call, math_ret>>
gcdVars == <<gcd_in, gcd_a, gcd_b, gcd_pc, gcd_ret>>
traceVars == <<trace, trace_commands>>
playVars == <<pl_ids, pl_action, pl_calls, pl_collision>>
extVars == <<copyVars, mathVars, gcdVars, traceVars, playVars>>
copyOthers == <<coreVars, mathVars, gcdVars, traceVars, playVars>>
mathOthers == <<coreVars, copyVars, gcdVars, traceVars, playVars>>
gcdOthers == <<coreVars, copyVars, mathVars, traceVars, playVars>>
traceOthers == <<rcVars, lgVars, lockVars, copyVars, mathVars, gcdVars, playVars>>
playOthers == <<coreVars, copyVars, mathVars, gcdVars, traceVars>>
vars == <<coreVars, extVars>>

-----------------------------------------------------------------------------
(***************************************************************************)
(* Bounds of the model and program constants.                              *)
(***************************************************************************)
MaxClones == 4          \* live RefCount values at any one time
MaxIndex == 7           \* largest index handed to use_at in SpecLifeGuard
MaxSubmits == 2         \* queue_submit calls that reach the index assignment
MaxStaging == 2         \* staging buffers created by queue_write_buffer
MaxBatch == 2           \* command buffers named in one queue_submit
AddressBits == 6        \* width of a BufferAddress in the model
U32Bits == 6            \* width of a u32 in the model
MaxArg == 12            \* arguments of get_lowest_common_denom, get_greatest_common_divisor
MaxBlocks == 17         \* width_blocks of a texture write
MaxTrace == 3           \* actions in the trace before a traced call
MaxResources == 2       \* IDs of the trace that are live or pending at one time

RefCount_MAX == 16777216    \* RefCount::MAX = 1 << 24

Threads == {"t1", "t2", "t3"}

-----------------------------------------------------------------------------
(***************************************************************************)
(* RefCount                                                                *)
(***************************************************************************)
RECURSIVE SumOver(_, _)
SumOver(f, S) ==
    IF S = {} THEN 0
    ELSE LET x == CHOOSE y \in S : TRUE IN f[x] + SumOver(f, S \ {x})

\* number of RefCount values that exist and have not begun their decrement
LiveClones == SumOver(rc_held, Threads)

\* What an atomic read-modify-write of the counter observes.  On a released
\* Box the read is undefined: any value may come back.
Observed == IF rc_alloc = "live" THEN {rc_count} ELSE 0..(MaxClones + 1)

\* fetch_add(1, AcqRel): the value stored by Clone::clone
FetchAddMissing(old) == old
FetchAdd(old) == old + 1

\* fetch_sub(1, AcqRel): the value stored by rich_drop_inner.  A usize would
\* wrap below zero; the model keeps the integer, which only a decrement of
\* an already-zero counter could tell apart.
FetchSub(old) == old - 1

\* rich_drop_inner's test of the value fetch_sub returns (the previous one)
IsLastCloneNewValue(old) == old = 0
IsLastClone(old) == old = 1

\* impl Clone for RefCount
rc_clone(t) ==
    /\ rc_pc[t] = "idle"
    /\ rc_held[t] >= 1
    /\ LiveClones < MaxClones
    /\ \E old_size \in Observed :
        /\ rc_count' = FetchAdd(old_size)
        /\ rc_panic' = (rc_panic \/ ~(old_size < RefCount_MAX))
        /\ rc_held' = IF old_size < RefCount_MAX
                        THEN [rc_held EXCEPT ![t] = @ + 1]
                        ELSE rc_held
    /\ rc_uaf' = (rc_uaf \/ rc_alloc = "freed")
    /\ UNCHANGED <<rc_alloc, rc_frees, rc_pc, rc_ret>>
    /\ UNCHANGED <<lgVars, devVars, texVars, lockVars, extVars>>

\* rich_drop_inner, first half: the atomic decrement
rc_drop_fetch_sub(t) ==
    /\ rc_pc[t] = "idle"
    /\ rc_held[t] >= 1
    /\ \E old \in Observed :
        /\ rc_count' = FetchSub(old)
        /\ rc_pc' = [rc_pc EXCEPT ![t] = IF IsLastClone(old) THEN "free" ELSE "idle"]
        /\ rc_ret' = IF IsLastClone(old) THEN rc_ret ELSE [rc_ret EXCEPT ![t] = "false"]
    /\ rc_held' = [rc_held EXCEPT ![t] = @ - 1]
    /\ rc_uaf' = (rc_uaf \/ rc_alloc = "freed")
    /\ UNCHANGED <<rc_alloc, rc_frees, rc_panic>>
    /\ UNCHANGED <<lgVars, devVars, texVars, lockVars, extVars>>

\* rich_drop_inner, second half: Box::from_raw and the drop of the Box
rc_drop_free(t) ==
    /\ rc_pc[t] = "free"
    /\ rc_alloc' = "freed"
    /\ rc_frees' = rc_frees + 1
    /\ rc_pc' = [rc_pc EXCEPT ![t] = "idle"]
    /\ rc_ret' = [rc_ret EXCEPT ![t] = "true"]
    /\ UNCHANGED <<rc_count, rc_uaf, rc_panic, rc_held>>
    /\ UNCHANGED <<lgVars, devVars, texVars, lockVars, extVars>>

\* RefCount is Send: a value moves to another thread (loom::thread::spawn(move ..))
rc_send(t, u) ==
    /\ t # u
    /\ rc_pc[t] = "idle"
    /\ rc_held[t] >= 1
    /\ rc_held' = [rc_held EXCEPT ![t] = @ - 1, ![u] = @ + 1]
    /\ UNCHANGED <<rc_count, rc_alloc, rc_frees, rc_uaf, rc_panic, rc_pc, rc_ret>>
    /\ UNCHANGED <<lgVars, devVars, texVars, lockVars, extVars>>

-----------------------------------------------------------------------------
(***************************************************************************)
(* LifeGuard                                                               *)
(***************************************************************************)
\* LifeGuard::new
LifeGuard_new == [ref_count |-> TRUE, submission_index |-> 0]

\* LifeGuard::use_at: the store, and the value returned
use_at_first(guard, submit_index) ==
    IF guard.submission_index = 0 THEN [guard EXCEPT !.submission_index = submit_index]
    ELSE guard
use_at(guard, submit_index) == [guard EXCEPT !.submission_index = submit_index]

use_at_ret_always(guard) == TRUE
use_at_ret(guard) == guard.ref_count

Max(a, b) == IF a >= b THEN a ELSE b

lg_use_at(k) ==
    /\ lg_guard' = use_at(lg_guard, k)
    /\ lg_ret' = use_at_ret(lg_guard)
    /\ lg_max' = Max(lg_max, k)
    /\ lg_prev' = lg_guard.submission_index
    /\ UNCHANGED <<rcVars, devVars, texVars, lockVars, extVars>>

\* the owner of the resource gives up its handle: ref_count.take()
lg_take_ref ==
    /\ lg_guard.ref_count
    /\ lg_guard' = [lg_guard EXCEPT !.ref_count = FALSE]
    /\ UNCHANGED <<lg_max, lg_prev, lg_ret>>
    /\ UNCHANGED <<rcVars, devVars, texVars, lockVars, extVars>>

-----------------------------------------------------------------------------
(***************************************************************************)
(* The device and its queue (device/queue.rs)                              *)
(***************************************************************************)
\* wgt::COPY_BUFFER_ALIGNMENT
COPY_BUFFER_ALIGNMENT == 4

\* wgt::BufferAddress is a u64; the model narrows it to AddressBits bits so
\* that buffer_offset + data_size can be seen to wrap.
AddressSpace == 2 ^ AddressBits

\* Buffer handles a caller may pass: b1 and b2 were created on the device,
\* b0 resolves to nothing.  b1 was created with COPY_DST, b2 without.
Buffers == {"b1", "b2"}
BufferIds == Buffers \cup {"b0"}
BufferUsageOf(b) == IF b = "b1" THEN {"COPY_DST", "STORAGE"} ELSE {"COPY_SRC", "STORAGE"}
BufferSizeOf(b) == 12

\* BufferUse values that only read
ReadOnlyUses == {"COPY_SRC", "STORAGE_LOAD"}

\* Command-buffer handles: c1 and c2 were recorded and registered, c0 is
\* unknown to the hub.  Both render to the swap chain; c1 writes b1, c2
\* copies into b1 and then reads it, and reads b2.
CommandBuffers == {"c1", "c2"}
CommandBufferIds == CommandBuffers \cup {"c0"}
CmdTrackers(c) ==
    IF c = "c1"
        THEN [b \in {"b1"} |-> [first |-> {"STORAGE_STORE"}, last |-> {"STORAGE_STORE"}]]
        ELSE [b \in {"b1", "b2"} |->
                IF b = "b1" THEN [first |-> {"COPY_DST"}, last |-> {"STORAGE_LOAD"}]
                ELSE [first |-> {"COPY_SRC"}, last |-> {"COPY_SRC"}]]

\* the raw native command buffers a recorded command buffer starts with
CmdRecorded(c) == <<[kind |-> "user", cb |-> c, body |-> <<>>]>>

\* arguments of the calls
Offsets == {3, 4, 8}
DataSizes == {0, 2, 8}
RECURSIVE SeqsUpTo(_, _)
SeqsUpTo(S, n) ==
    IF n = 0 THEN {<<>>}
    ELSE LET shorter == SeqsUpTo(S, n - 1)
         IN  shorter \cup {Append(s, x) : s \in {t \in shorter : Len(t) = n - 1}, x \in S}
Batches == SeqsUpTo(CommandBufferIds, MaxBatch)

\* where the native layer may refuse a call
WriteFailures == {"none", "create_buffer", "allocate", "bind_buffer_memory", "map"}
SubmitFailures == {"none", "unmap_buffer", "create_fence", "maintain_device", "maintain_stuck"}

\* The calls of queue_write_buffer the model makes.  Arguments the code
\* never reads on the path taken are held at one value: every argument
\* after an unknown queue id or a native failure of the staging
\* allocation, and the overflow checking of the build when offset + size
\* does not overflow.
WriteCalls ==
    {c \in [queue_ok : BOOLEAN, buffer_id : BufferIds, buffer_offset : Offsets,
            data_size : DataSizes, fail : WriteFailures, checked : BOOLEAN] :
        /\ (~c.queue_ok \/ c.fail # "none") =>
                c.buffer_id = "b1" /\ c.buffer_offset = 4 /\ c.data_size = 8
        /\ ~c.queue_ok => c.fail = "none"
        /\ c.data_size = 0 => c.fail = "none"
        /\ c.checked => c.fail = "none" /\ c.queue_ok
                        /\ c.buffer_offset + c.data_size >= AddressSpace}

\* Calls whose offset is so close to the end of the address space that
\* buffer_offset + data_size overflows
FarOffsets == {AddressSpace - 4}
FarWriteCalls ==
    [queue_ok : {TRUE}, buffer_id : {"b1"}, buffer_offset : FarOffsets, data_size : {8},
     fail : {"none"}, checked : BOOLEAN]
AllWriteCalls == WriteCalls \cup FarWriteCalls

\* The calls of queue_submit the model makes, likewise.
SubmitCalls ==
    {c \in [queue_ok : BOOLEAN, command_buffer_ids : Batches, fail : SubmitFailures] :
        ~c.queue_ok => c.fail = "none" /\ c.command_buffer_ids = <<>>}


\* Storage::get on the buffer table
BufferResolves(id) == id \in Buffers /\ buffers[id].live

-----------------------------------------------------------------------------
\* PendingWrites::new
PendingWrites_new == [command_buffer |-> [some |-> FALSE, cmds |-> <<>>], temp_buffers |-> <<>>]

\* PendingWrites::consume
consume_no_temp(pw, stage) == [pw EXCEPT !.command_buffer = [some |-> TRUE, cmds |-> stage.cmdbuf]]
consume(pw, stage) ==
    [command_buffer |-> [some |-> TRUE, cmds |-> stage.cmdbuf],
     temp_buffers |-> Append(pw.temp_buffers, stage.buffer)]

\* Option::take on pending_writes.command_buffer
take_command_buffer(pw) == [pw EXCEPT !.command_buffer = [some |-> FALSE, cmds |-> <<>>]]

\* Tracker::use_replace on the stored usage of one resource: the usage kept
\* afterwards, and the transition handed back (<<>> when there is none)
Compatible(old, usage) == (old \cup usage) \subseteq ReadOnlyUses
use_replace_state(old, usage) == IF Compatible(old, usage) THEN old \cup usage ELSE usage
use_replace_transition(id, old, usage) ==
    IF Compatible(old, usage) THEN <<>> ELSE <<[id |-> id, from |-> old, to |-> usage]>>

\* buffer_offset + data_size on a BufferAddress
AddOverflows(a, b) == a + b >= AddressSpace
WrappingAdd(a, b) == (a + b) % AddressSpace

\* Lines 189-190: data_size == 0
IsEmptyWriteNever(data_size) == FALSE
IsEmptyWrite(data_size) == data_size = 0

\* How far queue_write_buffer gets: the name of the return it takes.
\* `checked` says whether the build checks arithmetic overflow.
WriteBufferStop(queue_ok, buffer_id, buffer_offset, data_size, fail, checked) ==
    IF ~queue_ok THEN "InvalidDevice"
    ELSE IF IsEmptyWrite(data_size) THEN "Ignored"
    ELSE IF fail = "create_buffer" THEN "create_buffer"
    ELSE IF fail = "allocate" THEN "allocate"
    ELSE IF fail = "bind_buffer_memory" THEN "bind_buffer_memory"
    ELSE IF fail = "map" THEN "map"
    ELSE IF ~BufferResolves(buffer_id) THEN "InvalidBuffer"
    ELSE IF "COPY_DST" \notin BufferUsageOf(buffer_id) THEN "MissingCopyDstUsageFlag"
    ELSE IF data_size % COPY_BUFFER_ALIGNMENT # 0 THEN "UnalignedCopySize"
    ELSE IF buffer_offset % COPY_BUFFER_ALIGNMENT # 0 THEN "UnalignedBufferOffset"
    ELSE IF AddOverflows(buffer_offset, data_size) /\ checked THEN "Panic"
    ELSE IF WrappingAdd(buffer_offset, data_size) > BufferSizeOf(buffer_id) THEN "BufferOverrun"
    ELSE "Ok"

\* the error value of each return
WriteBufferError(stop) ==
    IF stop \in {"create_buffer", "allocate", "bind_buffer_memory", "map"} THEN "OutOfMemory"
    ELSE IF stop = "Ignored" THEN "Ok"
    ELSE stop

\* the statements each return has passed
StageCreated(stop) == stop \notin {"InvalidDevice", "Ignored", "create_buffer"}
StagePrepared(stop) == StageCreated(stop) /\ stop \notin {"allocate", "bind_buffer_memory"}
TrackerReplaced(stop) == StagePrepared(stop) /\ stop \notin {"map", "InvalidBuffer"}
LifeGuardUsed(stop) == TrackerReplaced(stop) /\ stop # "MissingCopyDstUsageFlag"

\* Device::prepare_stage once its allocations succeeded: the staging buffer
\* and the command buffer taken from, or opened for, PendingWrites
prepare_stage(pw, n) == [buffer |-> n, cmdbuf |-> pw.command_buffer.cmds]

\* the copy recorded by queue_write_buffer into the staging command buffer
record_copy(stage, buffer_id, buffer_offset, data_size, transition) ==
    [stage EXCEPT !.cmdbuf = Append(@, [dst |-> buffer_id, offset |-> buffer_offset,
                                         size |-> data_size, barriers |-> transition])]

\* device.active_submission_index + 1: the last-use index a write records on
\* its destination (queue_write_buffer line 218, queue_write_texture line 353)
write_last_use_current(active) == active
write_last_use(active) == active + 1

\* Global::queue_write_buffer: the state the call leaves behind and the
\* value it returns
WriteBufferPost(queue_ok, buffer_id, buffer_offset, data_size, fail, checked) ==
    LET stop == WriteBufferStop(queue_ok, buffer_id, buffer_offset, data_size, fail, checked)
        stage == prepare_stage(pending_writes, staging_count + 1)
        old == trackers[buffer_id]
        transition == use_replace_transition(buffer_id, old, {"COPY_DST"})
        recorded == record_copy(stage, buffer_id, buffer_offset, data_size, transition)
    IN
    [err |-> WriteBufferError(stop),
     staging_count |-> IF StageCreated(stop) THEN staging_count + 1 ELSE staging_count,
     pending_writes |->
        IF stop = "Ok" THEN consume(pending_writes, recorded)
        ELSE IF StagePrepared(stop) THEN take_command_buffer(pending_writes)
        ELSE pending_writes,
     trackers |->
        IF TrackerReplaced(stop)
            THEN [trackers EXCEPT ![buffer_id] = use_replace_state(old, {"COPY_DST"})]
            ELSE trackers,
     buffers |->
        IF LifeGuardUsed(stop)
            THEN [buffers EXCEPT ![buffer_id].life_guard =
                    use_at(@, write_last_use(active_submission_index))]
            ELSE buffers,
     queue_log |-> queue_log]

queue_write_buffer(queue_ok, buffer_id, buffer_offset, data_size, fail, checked) ==
    LET post == WriteBufferPost(queue_ok, buffer_id, buffer_offset, data_size, fail, checked)
    IN
    /\ staging_count < MaxStaging
    /\ staging_count' = post.staging_count
    /\ pending_writes' = post.pending_writes
    /\ trackers' = post.trackers
    /\ buffers' = post.buffers
    /\ queue_log' = post.queue_log
    /\ UNCHANGED <<active_submission_index, temp_suspected, command_buffers, swap_chain,
                   gpu_done, life_tracker>>
    /\ UNCHANGED <<rcVars, lgVars, texVars, lockVars, extVars>>

-----------------------------------------------------------------------------
\* Texture handles a caller may pass: x1 was created with COPY_DST, x2
\* without, x0 resolves to nothing.  Both textures have a format of one
\* texel per block and BytesPerBlock bytes per texel.
Textures == {"x1", "x2"}
TextureIds == Textures \cup {"x0"}
TextureUsageOf(x) == IF x = "x1" THEN {"COPY_DST", "SAMPLED"} ELSE {"SAMPLED"}
BytesPerBlock == 4
BlockWidth == 1
BlockHeight == 1
\* device.hal_limits.optimal_buffer_copy_pitch_alignment
OptimalBufferCopyPitchAlignment == 4

\* u32 arithmetic, narrowed to U32Bits bits
U32 == 2 ^ U32Bits
WrapU32(x) == x % U32

\* fn get_greatest_common_divisor (called with a >= b > 0)
RECURSIVE get_greatest_common_divisor(_, _)
get_greatest_common_divisor(a, b) ==
    LET c == a % b
    IN  IF c = 0 THEN b ELSE get_greatest_common_divisor(b, c)

\* fn get_lowest_common_denom, in a build that wraps on overflow
get_lowest_common_denom(a, b) ==
    LET gcd == IF a >= b THEN get_greatest_common_divisor(a, b)
               ELSE get_greatest_common_divisor(b, a)
    IN  WrapU32(a * b) \div gcd

\* fn align_to, in a build that wraps on overflow
align_to(value, alignment) ==
    LET other == value % alignment
    IN  IF other = 0 THEN value ELSE WrapU32(value - other + alignment)

\* Lines 315-329: the size of the staging buffer of a texture write, in a
\* build that wraps on overflow.  stage_size is a u64 product of two u32.
\* The same for a format of block_width x block_height texels per block.
width_blocks_of(size, block_width) == size.width \div block_width
height_blocks_of(size, block_width, block_height) == size.height \div block_width
stage_pitch(bytes_per_block, blocks, alignment) ==
    align_to(WrapU32(bytes_per_block * blocks),
             get_lowest_common_denom(alignment, bytes_per_block))
block_rows_in_copy_of(size, rows_per_image, block_width, block_height) ==
    WrapU32(WrapU32(WrapU32(size.depth - 1) * (rows_per_image \div block_height))
                + height_blocks_of(size, block_width, block_height))
stage_size_of(size, rows_per_image, bytes_per_block, block_width, block_height, alignment) ==
    stage_pitch(bytes_per_block, width_blocks_of(size, block_width), alignment)
        * block_rows_in_copy_of(size, rows_per_image, block_width, block_height)
width_blocks(size) == width_blocks_of(size, BlockWidth)
height_blocks(size) == height_blocks_of(size, BlockWidth, BlockHeight)
stage_bytes_per_row(size) ==
    stage_pitch(BytesPerBlock, width_blocks(size), OptimalBufferCopyPitchAlignment)
block_rows_in_copy(size, rows_per_image) ==
    block_rows_in_copy_of(size, rows_per_image, BlockWidth, BlockHeight)
stage_size(size, rows_per_image) ==
    stage_size_of(size, rows_per_image, BytesPerBlock, BlockWidth, BlockHeight,
                  OptimalBufferCopyPitchAlignment)

\* size.depth - 1 on a u32
DepthUnderflows(size) == size.depth = 0

\* Line 297: the extent queue_write_texture ignores
IgnoredExtent(size) == size.width = 0 \/ size.height = 0 \/ size.width = 0

\* arguments of queue_write_texture
Widths == {0, 1}
Heights == {0, 1}
Depths == {0, 1, 2}
RowsPerImage == {0, 1}
Extent3d == [width : Widths, height : Heights, depth : Depths]
TextureFailures ==
    {"none", "layout", "create_buffer", "allocate", "bind_buffer_memory", "range", "map"}

\* The calls of queue_write_texture the model makes.  Arguments the code
\* never reads on the path taken are held at one value.
TextureCalls ==
    {c \in [queue_ok : BOOLEAN, texture : TextureIds, size : Extent3d,
            rows_per_image : RowsPerImage, fail : TextureFailures, checked : BOOLEAN] :
        /\ (~c.queue_ok \/ c.fail # "none") =>
                /\ c.texture = "x1"
                /\ c.size = [width |-> 1, height |-> 1, depth |-> 1]
                /\ c.rows_per_image = 1
        /\ ~c.queue_ok => c.fail = "none"
        /\ (c.texture = "x0" \/ IgnoredExtent(c.size)) => c.rows_per_image = 1
        /\ c.checked => c.queue_ok /\ c.texture # "x0" /\ ~IgnoredExtent(c.size)
                        /\ DepthUnderflows(c.size) /\ c.fail = "none"}

\* texture_copy_view_to_hal: the destination resolves
TextureResolves(id) == id \in Textures

\* How far queue_write_texture gets: the name of the return it takes.
\* `checked` says whether the build checks arithmetic overflow.
WriteTextureStop(queue_ok, texture, size, rows_per_image, fail, checked) ==
    IF ~queue_ok THEN "InvalidDevice"
    ELSE IF ~TextureResolves(texture) THEN "InvalidTexture"
    ELSE IF IgnoredExtent(size) THEN "Ignored"
    ELSE IF fail = "layout" THEN "InvalidLayout"
    ELSE IF DepthUnderflows(size) /\ checked THEN "Panic"
    ELSE IF fail = "create_buffer" THEN "create_buffer"
    ELSE IF fail = "allocate" THEN "allocate"
    ELSE IF fail = "bind_buffer_memory" THEN "bind_buffer_memory"
    ELSE IF "COPY_DST" \notin TextureUsageOf(texture) THEN "MissingCopyDstUsageFlag"
    ELSE IF fail = "range" THEN "InvalidCopyRange"
    ELSE IF fail = "map" THEN "map"
    ELSE "Ok"

\* the statements each return of queue_write_texture has passed
TextureArithmeticDone(stop) ==
    stop \notin {"InvalidDevice", "InvalidTexture", "Ignored", "InvalidLayout", "Panic"}
TextureStageCreated(stop) == TextureArithmeticDone(stop) /\ stop # "create_buffer"
TextureStagePrepared(stop) ==
    TextureStageCreated(stop) /\ stop \notin {"allocate", "bind_buffer_memory"}
TextureLifeGuardUsed(stop) ==
    TextureStagePrepared(stop) /\ stop \notin {"MissingCopyDstUsageFlag", "InvalidCopyRange"}

\* the copy recorded by queue_write_texture into the staging command buffer
record_texture_copy(stage, texture, size, bytes, transition) ==
    [stage EXCEPT !.cmdbuf = Append(@, [dst |-> texture, extent |-> size,
                                         size |-> bytes, barriers |-> transition])]

\* Global::queue_write_texture: the state the call leaves behind and the
\* value it returns
WriteTexturePost(queue_ok, texture, size, rows_per_image, fail, checked) ==
    LET stop == WriteTextureStop(queue_ok, texture, size, rows_per_image, fail, checked)
        stage == prepare_stage(pending_writes, staging_count + 1)
        old == texture_trackers[texture]
        transition == use_replace_transition(texture, old, {"COPY_DST"})
        recorded == record_texture_copy(stage, texture, size,
                                        stage_size(size, rows_per_image), transition)
    IN
    [err |-> WriteBufferError(stop),
     staging_count |-> IF TextureStageCreated(stop) THEN staging_count + 1 ELSE staging_count,
     pending_writes |->
        IF stop = "Ok" THEN consume(pending_writes, recorded)
        ELSE IF TextureStagePrepared(stop) THEN take_command_buffer(pending_writes)
        ELSE pending_writes,
     texture_trackers |->
        IF TextureStagePrepared(stop)
            THEN [texture_trackers EXCEPT ![texture] = use_replace_state(old, {"COPY_DST"})]
            ELSE texture_trackers,
     textures |->
        IF TextureLifeGuardUsed(stop)
            THEN [textures EXCEPT ![texture].life_guard =
                    use_at(@, write_last_use(active_submission_index))]
            ELSE textures]

queue_write_texture(queue_ok, texture, size, rows_per_image, fail, checked) ==
    LET post == WriteTexturePost(queue_ok, texture, size, rows_per_image, fail, checked)
    IN
    /\ staging_count < MaxStaging
    /\ staging_count' = post.staging_count
    /\ pending_writes' = post.pending_writes
    /\ texture_trackers' = post.texture_trackers
    /\ textures' = post.textures
    /\ UNCHANGED <<active_submission_index, temp_suspected, trackers, buffers, command_buffers,
                   swap_chain, queue_log, gpu_done, life_tracker>>
    /\ UNCHANGED <<rcVars, lgVars, lockVars, extVars>>

-----------------------------------------------------------------------------
\* the buffers a command buffer's tracker has used, in the order used() yields them
UsedBuffers(c) == IF c = "c1" THEN <<"b1">> ELSE <<"b1", "b2">>

\* TrackerSet::optimize: leaves the entry and exit usage of every resource as recorded
optimize(t) == t

\* Lines 502-516: one buffer of cmdbuf.trackers.buffers.used().  st carries the
\* buffer table, temp_suspected and the error that ended the call ("Ok": none).
UpdateBufferSubmission(st, id, submit_index, fail) ==
    IF st.err # "Ok" THEN st
    ELSE IF ~st.bufs[id].live THEN [st EXCEPT !.err = "Panic"]
    ELSE LET used == [st.bufs EXCEPT ![id].life_guard = use_at(@, submit_index)]
         IN  IF ~use_at_ret(st.bufs[id].life_guard)
             THEN IF st.bufs[id].map_state = "Active"
                  THEN IF fail = "unmap_buffer"
                       THEN [st EXCEPT !.bufs = used, !.err = "BufferAccess"]
                       ELSE [st EXCEPT !.bufs = [used EXCEPT ![id].map_state = "Idle"],
                                       !.susp = Append(@, id)]
                  ELSE [st EXCEPT !.bufs = used, !.susp = Append(@, id)]
             ELSE IF st.bufs[id].map_state = "Idle"
                  THEN [st EXCEPT !.bufs = used]
                  ELSE [st EXCEPT !.bufs = used, !.err = "Panic"]

RECURSIVE UpdateSubmissionIds(_, _, _, _)
UpdateSubmissionIds(st, ids, submit_index, fail) ==
    IF ids = <<>> THEN st
    ELSE UpdateSubmissionIds(UpdateBufferSubmission(st, Head(ids), submit_index, fail),
                             Tail(ids), submit_index, fail)

\* CommandBuffer::insert_barriers: the transitions from the device tracker's
\* state to the command buffer's entry state, and the device tracker moved
\* to the command buffer's exit state
RECURSIVE BarriersFor(_, _, _)
BarriersFor(trk, used, ids) ==
    IF ids = <<>> THEN <<>>
    ELSE use_replace_transition(Head(ids), trk[Head(ids)], used[Head(ids)].first)
            \o BarriersFor(trk, used, Tail(ids))

insert_barriers_keep(trk, used) == trk
insert_barriers(trk, used) ==
    [b \in DOMAIN trk |-> IF b \in DOMAIN used THEN used[b].last ELSE trk[b]]

\* cmdbuf.raw.insert(0, transit)
insert_transit(raw, transit) == <<transit>> \o raw
\* Lines 490-494: the swap chain's semaphore joins the signal list when no
\* framebuffer of the frame has been acquired yet
signal_swapchain_semaphores_always(signal, sc) == Append(signal, "sc")
signal_swapchain_semaphores(signal, sc) ==
    IF sc.acquired_framebuffers = 0 THEN Append(signal, "sc") ELSE signal

\* Lines 470-568: one command buffer of the batch
StitchOne(st, cmb_id, submit_index, fail) ==
    IF st.err # "Ok" THEN st
    ELSE IF ~(cmb_id \in CommandBuffers /\ st.cb[cmb_id].registered)
        THEN [st EXCEPT !.err = "InvalidCommandBuffer"]
    ELSE
    LET cmdbuf == st.cb[cmb_id]
        taken == [st EXCEPT !.cb[cmb_id].used_swap_chain = FALSE]
        s1 == IF ~cmdbuf.used_swap_chain THEN taken
              ELSE IF ~st.sc.acquired_view_id
                THEN [taken EXCEPT !.sc.active_submission_index = submit_index,
                                   !.err = "SwapChainOutputDropped"]
              ELSE [taken EXCEPT
                        !.sc.active_submission_index = submit_index,
                        !.sc.acquired_framebuffers = @ + 1,
                        !.signal = signal_swapchain_semaphores(@, st.sc)]
        s2 == UpdateSubmissionIds(s1, UsedBuffers(cmb_id), submit_index, fail)
        used == optimize(CmdTrackers(cmb_id))
        transit == [kind |-> "transit", cb |-> cmb_id,
                    body |-> BarriersFor(s2.trk, used, UsedBuffers(cmb_id))]
    IN  IF s2.err # "Ok" THEN s2
        ELSE [s2 EXCEPT !.trk = insert_barriers(s2.trk, used),
                        !.cb[cmb_id].raw = insert_transit(@, transit)]

RECURSIVE StitchAll(_, _, _, _)
StitchAll(st, ids, submit_index, fail) ==
    IF ids = <<>> THEN st
    ELSE StitchAll(StitchOne(st, Head(ids), submit_index, fail), Tail(ids), submit_index, fail)

\* Lines 578-588: the command buffers of the native submission
RECURSIVE FlatRaw(_, _)
FlatRaw(cb, ids) ==
    IF ids = <<>> THEN <<>> ELSE cb[Head(ids)].raw \o FlatRaw(cb, Tail(ids))

submission_command_buffers(pending, cb, ids) ==
    (IF pending.some THEN <<[kind |-> "pending", cb |-> "", body |-> pending.cmds]>> ELSE <<>>)
        \o FlatRaw(cb, ids)

\* Lines 444-446: the index of the new submission
next_submission_index_same(active) == active
next_submission_index(active) == active + 1

\* whether the fence of a submission record has signaled: the queue completes
\* its submissions in order
FenceSignaled(record, done) == record.fence <= done

\* Device::maintain, the triage of the submission records: the records
\* whose fences have signaled are retired in order, and a suspected resource
\* whose last use is the retired submission is destroyed.
DestroySuspected(bufs, record) ==
    [b \in DOMAIN bufs |->
        IF /\ \E i \in 1..Len(record.suspected) : record.suspected[i] = b
           /\ bufs[b].life_guard.submission_index = record.index
        THEN [bufs[b] EXCEPT !.live = FALSE]
        ELSE bufs[b]]

RECURSIVE maintain(_, _, _)
maintain(records, bufs, done) ==
    IF records = <<>> \/ ~FenceSignaled(Head(records), done)
        THEN [life_tracker |-> records, bufs |-> bufs]
        ELSE maintain(Tail(records), DestroySuspected(bufs, Head(records)), done)

\* LifetimeTracker::track_submission
track_submission(records, index, fence, suspected, temp_buffers) ==
    Append(records, [index |-> index, fence |-> fence, suspected |-> suspected,
                     temp_buffers |-> temp_buffers])

\* a slot of the command-buffer table whose command buffer has left
Unregistered == [registered |-> FALSE, raw |-> <<>>, used_swap_chain |-> FALSE]

\* Lines 614-618: the command buffers leave the hub; naming one twice makes
\* the second unregister fail
RECURSIVE UnregisterAll(_, _)
UnregisterAll(st, ids) ==
    IF ids = <<>> \/ st.err # "Ok" THEN st
    ELSE IF ~st.cb[Head(ids)].registered THEN [st EXCEPT !.err = "Panic"]
    ELSE UnregisterAll([st EXCEPT !.cb[Head(ids)] = Unregistered], Tail(ids))

\* pending_writes.temp_buffers.drain(..)
drain_temp_buffers(pw) == [pw EXCEPT !.temp_buffers = <<>>]

\* Global::queue_submit: the state the call leaves behind, the value it
\* returns, and whether it reached queues[0].submit
SubmitPost(queue_ok, command_buffer_ids, fail) ==
    LET pending == pending_writes.command_buffer
        submit_index == next_submission_index(active_submission_index)
        st0 == [cb |-> command_buffers, sc |-> swap_chain, bufs |-> buffers,
                trk |-> trackers, susp |-> <<>>, signal |-> <<>>, err |-> "Ok"]
        st == StitchAll(st0, command_buffer_ids, submit_index, fail)
        fenced == st.err = "Ok" /\ fail # "create_fence"
        submission == [index |-> submit_index,
                       command_buffers |->
                            submission_command_buffers(pending, st.cb, command_buffer_ids),
                       signal |-> st.signal]
        maintained == maintain(life_tracker, st.bufs, gpu_done)
        tracked == fenced /\ fail \notin {"maintain_device", "maintain_stuck"}
        done == UnregisterAll([cb |-> st.cb, err |-> "Ok"], command_buffer_ids)
    IN
    IF ~queue_ok
    THEN [err |-> "InvalidDevice", native |-> FALSE,
          active_submission_index |-> active_submission_index,
          pending_writes |-> pending_writes, temp_suspected |-> temp_suspected,
          trackers |-> trackers, buffers |-> buffers, command_buffers |-> command_buffers,
          swap_chain |-> swap_chain, queue_log |-> queue_log, life_tracker |-> life_tracker]
    ELSE [err |-> IF st.err # "Ok" THEN st.err
                  ELSE IF fail \in {"create_fence", "maintain_device"} THEN "OutOfMemory"
                  ELSE IF fail = "maintain_stuck" THEN "StuckGpu"
                  ELSE done.err,
          native |-> fenced,
          active_submission_index |-> submit_index,
          pending_writes |->
                IF tracked THEN drain_temp_buffers(take_command_buffer(pending_writes))
                ELSE take_command_buffer(pending_writes),
          temp_suspected |-> st.susp,
          trackers |-> st.trk,
          buffers |-> IF tracked THEN maintained.bufs ELSE st.bufs,
          command_buffers |-> IF tracked THEN done.cb ELSE st.cb,
          swap_chain |-> st.sc,
          queue_log |-> IF fenced THEN Append(queue_log, submission) ELSE queue_log,
          life_tracker |->
                IF tracked
                THEN track_submission(maintained.life_tracker, submit_index,
                                      gpu_done + Len(queue_log) + 1, st.susp,
                                      pending_writes.temp_buffers)
                ELSE life_tracker]

queue_submit(queue_ok, command_buffer_ids, fail) ==
    LET post == SubmitPost(queue_ok, command_buffer_ids, fail)
    IN
    /\ active_submission_index < MaxSubmits
    /\ active_submission_index' = post.active_submission_index
    /\ pending_writes' = post.pending_writes
    /\ temp_suspected' = post.temp_suspected
    /\ trackers' = post.trackers
    /\ buffers' = post.buffers
    /\ command_buffers' = post.command_buffers
    /\ swap_chain' = post.swap_chain
    /\ queue_log' = post.queue_log
    /\ life_tracker' = post.life_tracker
    /\ UNCHANGED <<staging_count, gpu_done>>
    /\ UNCHANGED <<rcVars, lgVars, texVars, lockVars, extVars>>

-----------------------------------------------------------------------------
\* The environment of the queue.

\* the owner drops its buffer handle: the LifeGuard gives up its RefCount
buffer_drop(b) ==
    /\ buffers[b].live
    /\ buffers[b].life_guard.ref_count
    /\ buffers' = [buffers EXCEPT ![b].life_guard.ref_count = FALSE]
    /\ UNCHANGED <<active_submission_index, pending_writes, temp_suspected, trackers,
                   command_buffers, swap_chain, queue_log, gpu_done, life_tracker,
                   staging_count>>
    /\ UNCHANGED <<rcVars, lgVars, texVars, lockVars, extVars>>

\* buffer mapping: map_async, the mapping becoming ready, unmap
buffer_map_step(b) ==
    /\ buffers[b].live
    /\ buffers' = [buffers EXCEPT ![b].map_state =
                        IF @ = "Idle" THEN "Waiting"
                        ELSE IF @ = "Waiting" THEN "Active" ELSE "Idle"]
    /\ UNCHANGED <<active_submission_index, pending_writes, temp_suspected, trackers,
                   command_buffers, swap_chain, queue_log, gpu_done, life_tracker,
                   staging_count>>
    /\ UNCHANGED <<rcVars, lgVars, texVars, lockVars, extVars>>

\* the swap chain hands out its next frame
swap_chain_get_next_texture ==
    /\ ~swap_chain.acquired_view_id
    /\ swap_chain' = [swap_chain EXCEPT !.acquired_view_id = TRUE]
    /\ UNCHANGED <<active_submission_index, pending_writes, temp_suspected, trackers,
                   buffers, command_buffers, queue_log, gpu_done, life_tracker,
                   staging_count>>
    /\ UNCHANGED <<rcVars, lgVars, texVars, lockVars, extVars>>

\* the frame is presented (or its view dropped)
swap_chain_present ==
    /\ swap_chain.acquired_view_id
    /\ swap_chain' = [swap_chain EXCEPT !.acquired_view_id = FALSE,
                                        !.acquired_framebuffers = 0]
    /\ UNCHANGED <<active_submission_index, pending_writes, temp_suspected, trackers,
                   buffers, command_buffers, queue_log, gpu_done, life_tracker,
                   staging_count>>
    /\ UNCHANGED <<rcVars, lgVars, texVars, lockVars, extVars>>

\* the native queue completes its oldest unfinished submission
gpu_complete ==
    /\ queue_log # <<>>
    /\ queue_log' = Tail(queue_log)
    /\ gpu_done' = gpu_done + 1
    /\ UNCHANGED <<active_submission_index, pending_writes, temp_suspected, trackers,
                   buffers, command_buffers, swap_chain, life_tracker, staging_count>>
    /\ UNCHANGED <<rcVars, lgVars, texVars, lockVars, extVars>>

\* the maintenance pass run on demand
device_maintain ==
    /\ life_tracker # <<>>
    /\ FenceSignaled(Head(life_tracker), gpu_done)
    /\ buffers' = maintain(life_tracker, buffers, gpu_done).bufs
    /\ life_tracker' = maintain(life_tracker, buffers, gpu_done).life_tracker
    /\ UNCHANGED <<active_submission_index, pending_writes, temp_suspected, trackers,
                   command_buffers, swap_chain, queue_log, gpu_done, staging_count>>
    /\ UNCHANGED <<rcVars, lgVars, texVars, lockVars, extVars>>

-----------------------------------------------------------------------------
(***************************************************************************)
(* Locks.  Every hub table is an RwLock and device.trackers,               *)
(* device.mem_allocator and device.life_tracker are mutexes.  A guard     *)
(* lives to the end of the block that declares it; a temporary guard to    *)
(* the end of its statement.  lk_op is the call a thread is in, lk_pc the *)
(* number of lock steps of that call it has taken, lk_held its guards in  *)
(* the order they were acquired.                                           *)
(***************************************************************************)
Acquire(lock, mode, ret) == [lock |-> lock, mode |-> mode, release |-> 0, ret |-> ret]
Release(n, ret) == [lock |-> "", mode |-> "", release |-> n, ret |-> ret]

\* Global::queue_write_buffer; ret: the call can return before its next lock step
WriteBufferLocks_buffers_first ==
    << Acquire("buffers", "read", FALSE),
       Acquire("devices", "write", TRUE),
       Acquire("mem_allocator", "lock", FALSE),
       Release(1, TRUE),
       Acquire("trackers", "lock", TRUE) >>
WriteBufferLocks ==
    << Acquire("devices", "write", TRUE),           \* 168; 171
       Acquire("buffers", "read", TRUE),            \* 172; 192
       Acquire("mem_allocator", "lock", FALSE),     \* 195 -> 97-99
       Release(1, TRUE),                            \* 106; 106, 111, 203
       Acquire("trackers", "lock", TRUE) >>         \* 210; 214-233

\* Global::queue_write_texture
WriteTextureLocks ==
    << Acquire("devices", "write", TRUE),           \* 274; 277
       Acquire("textures", "read", TRUE),           \* 278; 280, 299, 314
       Acquire("mem_allocator", "lock", FALSE),     \* 330 -> 97-99
       Release(1, TRUE),                            \* 106; 106, 111
       Acquire("trackers", "lock", TRUE) >>         \* 332; 341-362

\* Global::queue_submit
SubmitLocks_buffers_first ==
    << Acquire("devices", "write", TRUE),
       Acquire("swap_chains", "write", FALSE),
       Acquire("buffers", "write", FALSE),
       Acquire("command_buffers", "write", FALSE),
       Acquire("bind_groups", "read", FALSE),
       Acquire("compute_pipelines", "read", FALSE),
       Acquire("render_pipelines", "read", FALSE),
       Acquire("textures", "read", FALSE),
       Acquire("texture_views", "read", FALSE),
       Acquire("samplers", "read", FALSE),
       Acquire("trackers", "lock", TRUE),
       Release(10, TRUE),
       Acquire("life_tracker", "lock", FALSE),
       Release(1, FALSE),
       Acquire("command_buffers", "write", FALSE),
       Release(1, FALSE) >>
SubmitLocks ==
    << Acquire("devices", "write", TRUE),           \* 431; 434
       Acquire("swap_chains", "write", FALSE),      \* 450
       Acquire("command_buffers", "write", FALSE),  \* 451
       Acquire("bind_groups", "read", FALSE),       \* 454
       Acquire("compute_pipelines", "read", FALSE), \* 455
       Acquire("render_pipelines", "read", FALSE),  \* 456
       Acquire("buffers", "write", FALSE),          \* 457
       Acquire("textures", "read", FALSE),          \* 458
       Acquire("texture_views", "read", FALSE),     \* 459
       Acquire("samplers", "read", FALSE),          \* 460
       Acquire("trackers", "lock", TRUE),           \* 463; 473, 487, 507
       Release(10, TRUE),                           \* 571; 577, 604, 605
       Acquire("life_tracker", "lock", FALSE),      \* 607
       Release(1, FALSE),                           \* 612
       Acquire("command_buffers", "write", FALSE),  \* 616
       Release(1, FALSE) >>                         \* 616

LockOps == {"write_buffer", "write_texture", "submit"}

LockProgram(op) ==
    IF op = "write_buffer" THEN WriteBufferLocks
    ELSE IF op = "write_texture" THEN WriteTextureLocks
    ELSE IF op = "submit" THEN SubmitLocks
    ELSE <<>>

\* RwLock and Mutex: only two read guards can be held together
Conflicts(mode1, mode2) == ~(mode1 = "read" /\ mode2 = "read")

\* the next lock step of thread t, when it has one
HasNextStep(t) == lk_pc[t] < Len(LockProgram(lk_op[t]))
NextStep(t) == LockProgram(lk_op[t])[lk_pc[t] + 1]

\* thread u holds a guard that the acquisition `step` must wait for
HoldsAgainst(u, step) ==
    \E i \in 1..Len(lk_held[u]) :
        /\ lk_held[u][i].lock = step.lock
        /\ Conflicts(lk_held[u][i].mode, step.mode)

\* thread t enters one of the three calls
lk_call(t, op) ==
    /\ lk_op[t] = "idle"
    /\ lk_op' = [lk_op EXCEPT ![t] = op]
    /\ lk_pc' = [lk_pc EXCEPT ![t] = 0]
    /\ UNCHANGED lk_held
    /\ UNCHANGED <<rcVars, lgVars, devVars, texVars, extVars>>

\* RwLock::read, RwLock::write, Mutex::lock: blocks while a conflicting guard exists
lk_acquire(t) ==
    /\ lk_op[t] # "idle"
    /\ HasNextStep(t)
    /\ NextStep(t).release = 0
    /\ \A u \in Threads : ~HoldsAgainst(u, NextStep(t))
    /\ lk_held' = [lk_held EXCEPT ![t] =
                        Append(@, [lock |-> NextStep(t).lock, mode |-> NextStep(t).mode])]
    /\ lk_pc' = [lk_pc EXCEPT ![t] = @ + 1]
    /\ UNCHANGED lk_op
    /\ UNCHANGED <<rcVars, lgVars, devVars, texVars, extVars>>

\* the end of a block or statement drops the guards declared in it
lk_release(t) ==
    /\ lk_op[t] # "idle"
    /\ HasNextStep(t)
    /\ NextStep(t).release > 0
    /\ lk_held' = [lk_held EXCEPT ![t] = SubSeq(@, 1, Len(@) - NextStep(t).release)]
    /\ lk_pc' = [lk_pc EXCEPT ![t] = @ + 1]
    /\ UNCHANGED lk_op
    /\ UNCHANGED <<rcVars, lgVars, devVars, texVars, extVars>>

\* return, by `?`, `return` or the end of the function: every guard is dropped
lk_return(t) ==
    /\ lk_op[t] # "idle"
    /\ \/ ~HasNextStep(t)
       \/ lk_pc[t] > 0 /\ LockProgram(lk_op[t])[lk_pc[t]].ret
    /\ lk_held' = [lk_held EXCEPT ![t] = <<>>]
    /\ lk_op' = [lk_op EXCEPT ![t] = "idle"]
    /\ lk_pc' = [lk_pc EXCEPT ![t] = 0]
    /\ UNCHANGED <<rcVars, lgVars, devVars, texVars, extVars>>

-----------------------------------------------------------------------------
(***************************************************************************)
(* queue_write_texture, lines 307-383: the bytes the staging buffer        *)
(* receives.  A byte of data is named by its position (data[i] = i); a     *)
(* byte of the mapping nothing was written to is 0.                        *)
(***************************************************************************)
CopyWidths == {1, 2}
CopyHeights == {1, 2}
CopyDepths == {1, 2}
BytesPerRows == {4, 8, 12}
CopyRowsPerImage == {1, 2, 3}
ExcessBytes == {0, 4}

\* bytes_per_block * width_blocks: the bytes of one block row of the copy
bytes_in_row(size) == BytesPerBlock * width_blocks(size)

\* validate_linear_texture_data: the least data length the layout needs
required_bytes(size, bytes_per_row, rows_per_image) ==
    bytes_per_row * (rows_per_image \div BlockHeight) * (size.depth - 1)
        + bytes_per_row * (height_blocks(size) - 1)
        + bytes_in_row(size)

\* validate_linear_texture_data: row pitch against block size and row
\* size, rows per image against the height, data length against the layout
validate_linear_texture_data(size, bytes_per_row, rows_per_image, data_len) ==
    /\ bytes_per_row % BytesPerBlock = 0
    /\ bytes_per_row >= bytes_in_row(size)
    /\ rows_per_image >= size.height
    /\ data_len >= required_bytes(size, bytes_per_row, rows_per_image)

\* the calls: data is never shorter than the layout needs by anything but
\* one block, and never longer by more than one
CopyCalls ==
    {c \in [size : [width : CopyWidths, height : CopyHeights, depth : CopyDepths],
            bytes_per_row : BytesPerRows, rows_per_image : CopyRowsPerImage,
            data_len : 0..64] :
        \E e \in ExcessBytes \cup {-4} :
            c.data_len = required_bytes(c.size, c.bytes_per_row, c.rows_per_image) + e}

\* data: &[u8]
DataOf(c) == [i \in 1..c.data_len |-> i]

\* the (layer, row) pairs of the loops at 372-373, as rows_offset + row
CopyRows(c) ==
    {layer * (c.rows_per_image \div BlockHeight) + row :
        layer \in 0..(c.size.depth - 1), row \in 0..(height_blocks(c.size) - 1)}

\* Lines 365-367: mapping.slice[..stage_size].copy_from_slice(data), which
\* panics unless both slices have the same length
FastCopy(c) ==
    LET size == stage_size(c.size, c.rows_per_image)
    IN  IF c.data_len # size THEN [err |-> "Panic", stage |-> [i \in 1..size |-> 0]]
        ELSE [err |-> "Ok", stage |-> DataOf(c)]

\* Lines 368-383: row by row; a range past the end of either slice panics
SlowCopy(c) ==
    LET size == stage_size(c.size, c.rows_per_image)
        pitch == stage_bytes_per_row(c.size)
        copy_bytes_per_row == IF pitch < c.bytes_per_row THEN pitch ELSE c.bytes_per_row
        InBounds(r) == /\ r * c.bytes_per_row + copy_bytes_per_row <= c.data_len
                       /\ r * pitch + copy_bytes_per_row <= size
        RowAt(i) == (i - 1) \div pitch
        ColAt(i) == (i - 1) % pitch
    IN  IF \E r \in CopyRows(c) : ~InBounds(r)
        THEN [err |-> "Panic", stage |-> [i \in 1..size |-> 0]]
        ELSE [err |-> "Ok",
              stage |-> [i \in 1..size |->
                            IF RowAt(i) \in CopyRows(c) /\ ColAt(i) < copy_bytes_per_row
                            THEN DataOf(c)[RowAt(i) * c.bytes_per_row + ColAt(i) + 1]
                            ELSE 0]]

\* Lines 307-383 for one call
StageCopy(c) ==
    IF ~validate_linear_texture_data(c.size, c.bytes_per_row, c.rows_per_image, c.data_len)
    THEN [err |-> "InvalidLayout", stage |-> <<>>]
    ELSE IF stage_bytes_per_row(c.size) = c.bytes_per_row THEN FastCopy(c)
    ELSE SlowCopy(c)

NoCopyCall ==
    [size |-> [width |-> 0, height |-> 0, depth |-> 0], bytes_per_row |-> 0,
     rows_per_image |-> 0, data_len |-> 0]

write_texture_copy(c) ==
    /\ copy_call' = c
    /\ copy_ret' = StageCopy(c)
    /\ UNCHANGED copyOthers

-----------------------------------------------------------------------------
(***************************************************************************)
(* The arithmetic of the row pitch, lines 322-326 and 629-656, on u32:     *)
(* a build with overflow checks panics where the other wraps.              *)
(***************************************************************************)
MulOverflows(a, b) == a * b >= U32

\* fn get_lowest_common_denom: how the call ends and what it returns
LowestCommonDenom(a, b, checked) ==
    IF MulOverflows(a, b) /\ checked THEN [err |-> "Panic", value |-> 0]
    ELSE [err |-> "Ok", value |-> get_lowest_common_denom(a, b)]

\* fn align_to
AlignTo(value, alignment, checked) ==
    IF alignment = 0 THEN [err |-> "Panic", value |-> 0]
    ELSE IF value % alignment # 0 /\ value - (value % alignment) + alignment >= U32 /\ checked
        THEN [err |-> "Panic", value |-> 0]
    ELSE [err |-> "Ok", value |-> align_to(value, alignment)]

\* Lines 322-326: bytes_per_row_alignment and stage_bytes_per_row
StageBytesPerRow(bytes_per_block, blocks, alignment, checked) ==
    LET lcd == LowestCommonDenom(alignment, bytes_per_block, checked)
    IN  IF lcd.err # "Ok" THEN lcd
        ELSE IF MulOverflows(bytes_per_block, blocks) /\ checked
            THEN [err |-> "Panic", value |-> 0]
        ELSE AlignTo(WrapU32(bytes_per_block * blocks), lcd.value, checked)

\* block sizes of the texture formats and pitch alignments of the devices
BlockSizes == {1, 2, 4}
PitchAlignments == {1, 4, 8}

lowest_common_denom_call(a, b, checked) ==
    /\ math_call' = [op |-> "get_lowest_common_denom", a |-> a, b |-> b, c |-> 0,
                     checked |-> checked]
    /\ math_ret' = LowestCommonDenom(a, b, checked)
    /\ UNCHANGED mathOthers

\* Formats of block_width x block_height texels per block and the extents
\* of whole blocks a copy into them may have
BlockExtents == {1, 2, 4}
BlockCopySizes(block_width, block_height) ==
    {[width |-> block_width * w, height |-> block_height * h, depth |-> d] :
        w \in 1..2, h \in 1..2, d \in 1..2}

\* Lines 314-329 of queue_write_texture: the block rows of one layer and
\* the size of the staging buffer
stage_size_call(size, rows_per_image, block_width, block_height) ==
    /\ math_call' = [op |-> "stage_size", size |-> size, rows_per_image |-> rows_per_image,
                     block_width |-> block_width, block_height |-> block_height]
    /\ math_ret' = [err |-> "none",
                    height_blocks |-> height_blocks_of(size, block_width, block_height),
                    stage_bytes_per_row |->
                        stage_pitch(BytesPerBlock, width_blocks_of(size, block_width),
                                    OptimalBufferCopyPitchAlignment),
                    value |-> stage_size_of(size, rows_per_image, BytesPerBlock, block_width,
                                            block_height, OptimalBufferCopyPitchAlignment)]
    /\ UNCHANGED mathOthers

stage_bytes_per_row_call(bytes_per_block, blocks, alignment, checked) ==
    /\ math_call' = [op |-> "stage_bytes_per_row", a |-> bytes_per_block, b |-> blocks,
                     c |-> alignment, checked |-> checked]
    /\ math_ret' = StageBytesPerRow(bytes_per_block, blocks, alignment, checked)
    /\ UNCHANGED mathOthers

-----------------------------------------------------------------------------
(***************************************************************************)
(* fn get_greatest_common_divisor, lines 638-649, one loop iteration at a  *)
(* time.                                                                   *)
(***************************************************************************)
\* line 643: return b
gcd_result_a(a, b) == a
gcd_result(a, b) == b

\* line 639: assert!(a >= b)
gcd_enter(a, b) ==
    /\ gcd_pc \in {"idle", "done", "panic"}
    /\ gcd_in' = [a |-> a, b |-> b]
    /\ gcd_a' = a
    /\ gcd_b' = b
    /\ gcd_pc' = IF a >= b THEN "loop" ELSE "panic"
    /\ gcd_ret' = 0
    /\ UNCHANGED gcdOthers

\* lines 640-648: one pass through the loop; a % 0 panics
gcd_iterate ==
    /\ gcd_pc = "loop"
    /\ IF gcd_b = 0
       THEN /\ gcd_pc' = "panic"
            /\ UNCHANGED <<gcd_a, gcd_b, gcd_ret>>
       ELSE LET c == gcd_a % gcd_b
            IN  IF c = 0
                THEN /\ gcd_pc' = "done"
                     /\ gcd_ret' = gcd_result(gcd_a, gcd_b)
                     /\ UNCHANGED <<gcd_a, gcd_b>>
                ELSE /\ gcd_a' = gcd_b
                     /\ gcd_b' = c
                     /\ UNCHANGED <<gcd_pc, gcd_ret>>
    /\ UNCHANGED gcd_in
    /\ UNCHANGED gcdOthers

-----------------------------------------------------------------------------
(***************************************************************************)
(* The three operations on a device created with a trace                   *)
(* (device.trace is Some).  An entry of the trace carries, besides the     *)
(* action, the engine state at the moment trace.add ran.                   *)
(***************************************************************************)
EngineState(index, pw, trk, bufs, cb, xtrk, xs) ==
    [active_submission_index |-> index, pending_writes |-> pw, trackers |-> trk,
     buffers |-> bufs, command_buffers |-> cb, texture_trackers |-> xtrk, textures |-> xs]

EngineStateNow ==
    EngineState(active_submission_index, pending_writes, trackers, buffers, command_buffers,
                texture_trackers, textures)

TraceWriteCalls ==
    {c \in WriteCalls : c.fail = "none" /\ c.buffer_offset = 4 /\ c.buffer_id = "b1"}
TraceTextureCalls ==
    {c \in TextureCalls : /\ c.fail = "none" /\ ~c.checked /\ c.rows_per_image = 1
                          /\ c.size = [width |-> 1, height |-> 1, depth |-> 1]}
TraceSubmitCalls == {c \in SubmitCalls : c.fail = "none"}

\* Lines 174-187: Action::WriteBuffer, added once the device is resolved
queue_write_buffer_traced(queue_ok, buffer_id, buffer_offset, data_size, fail, checked) ==
    LET post == WriteBufferPost(queue_ok, buffer_id, buffer_offset, data_size, fail, checked)
    IN
    /\ staging_count < MaxStaging
    /\ Len(trace) < MaxTrace
    /\ trace' = IF queue_ok
                THEN Append(trace, [action |-> "WriteBuffer", id |-> buffer_id, index |-> 0,
                                    seen |-> EngineStateNow])
                ELSE trace
    /\ staging_count' = post.staging_count
    /\ pending_writes' = post.pending_writes
    /\ trackers' = post.trackers
    /\ buffers' = post.buffers
    /\ queue_log' = post.queue_log
    /\ UNCHANGED <<active_submission_index, temp_suspected, command_buffers, swap_chain,
                   gpu_done, life_tracker, trace_commands>>
    /\ UNCHANGED <<texVars, traceOthers>>

\* Lines 282-295: Action::WriteTexture, added once the device and the
\* texture are resolved
queue_write_texture_traced(queue_ok, texture, size, rows_per_image, fail, checked) ==
    LET post == WriteTexturePost(queue_ok, texture, size, rows_per_image, fail, checked)
    IN
    /\ staging_count < MaxStaging
    /\ Len(trace) < MaxTrace
    /\ trace' = IF queue_ok /\ TextureResolves(texture)
                THEN Append(trace, [action |-> "WriteTexture", id |-> texture, index |-> 0,
                                    seen |-> EngineStateNow])
                ELSE trace
    /\ staging_count' = post.staging_count
    /\ pending_writes' = post.pending_writes
    /\ texture_trackers' = post.texture_trackers
    /\ textures' = post.textures
    /\ UNCHANGED <<active_submission_index, temp_suspected, trackers, buffers, command_buffers,
                   swap_chain, queue_log, gpu_done, life_tracker, trace_commands>>
    /\ UNCHANGED traceOthers

\* the state of the loop at 470 when it has handled the first k ids
StitchPrefix(ids, k, fail) ==
    StitchAll([cb |-> command_buffers, sc |-> swap_chain, bufs |-> buffers,
               trk |-> trackers, susp |-> <<>>, signal |-> <<>>, err |-> "Ok"],
              SubSeq(ids, 1, k), next_submission_index(active_submission_index), fail)

\* the loop reaches line 474 for ids[k]: the ids before it were stitched
\* and ids[k] resolves
ReachesTrace(ids, k, fail) ==
    /\ StitchPrefix(ids, k - 1, fail).err = "Ok"
    /\ ids[k] \in CommandBuffers
    /\ command_buffers[ids[k]].registered

\* cmdbuf.commands of ids[k] is None at line 478: it was taken by an
\* earlier submit or earlier in this one
CommandsTaken(ids, k) ==
    \/ ~trace_commands[ids[k]]
    \/ \E j \in 1..(k - 1) : ids[j] = ids[k]

\* the positions of the batch at which cmdbuf.commands.take().unwrap() panics
UnwrapPanics(ids, fail) ==
    {k \in 1..Len(ids) : ReachesTrace(ids, k, fail) /\ CommandsTaken(ids, k)}

\* the positions whose Action::Submit is added to the trace
TracedPositions(ids, fail) ==
    {k \in 1..Len(ids) : /\ ReachesTrace(ids, k, fail)
                         /\ \A j \in 1..k : j \notin UnwrapPanics(ids, fail)}

RECURSIVE SubmitEntries(_, _, _)
SubmitEntries(ids, k, fail) ==
    IF k > Len(ids) THEN <<>>
    ELSE (IF k \in TracedPositions(ids, fail)
          THEN LET st == StitchPrefix(ids, k - 1, fail)
               IN  <<[action |-> "Submit", id |-> ids[k],
                      index |-> next_submission_index(active_submission_index),
                      seen |-> EngineState(next_submission_index(active_submission_index),
                                           take_command_buffer(pending_writes),
                                           st.trk, st.bufs, st.cb,
                                           texture_trackers, textures)]>>
          ELSE <<>>)
         \o SubmitEntries(ids, k + 1, fail)

\* Global::queue_submit with the trace: the unwrap at 478 ends the call
\* where an unknown id at 473 would, with a panic in place of the error
queue_submit_traced(queue_ok, command_buffer_ids, fail) ==
    LET panics == IF queue_ok THEN UnwrapPanics(command_buffer_ids, fail) ELSE {}
        first == CHOOSE k \in panics : \A j \in panics : k <= j
        run == IF panics = {} THEN command_buffer_ids
               ELSE Append(SubSeq(command_buffer_ids, 1, first - 1), "c0")
        post == SubmitPost(queue_ok, run, fail)
    IN
    /\ active_submission_index < MaxSubmits
    /\ Len(trace) < MaxTrace
    /\ trace' = IF queue_ok THEN trace \o SubmitEntries(command_buffer_ids, 1, fail) ELSE trace
    /\ trace_commands' =
            [c \in CommandBuffers |->
                IF queue_ok /\ \E k \in TracedPositions(command_buffer_ids, fail) :
                                    command_buffer_ids[k] = c
                THEN FALSE ELSE trace_commands[c]]
    /\ active_submission_index' = post.active_submission_index
    /\ pending_writes' = post.pending_writes
    /\ temp_suspected' = post.temp_suspected
    /\ trackers' = post.trackers
    /\ buffers' = post.buffers
    /\ command_buffers' = post.command_buffers
    /\ swap_chain' = post.swap_chain
    /\ queue_log' = post.queue_log
    /\ life_tracker' = post.life_tracker
    /\ UNCHANGED <<staging_count, gpu_done>>
    /\ UNCHANGED <<texVars, traceOthers>>

-----------------------------------------------------------------------------
(***************************************************************************)
(* The trace player, GlobalPlay::process.  The trace names one ID per      *)
(* resource kind; it creates an ID only when the recorded run had it free. *)
(***************************************************************************)
ResourceKinds ==
    {"Buffer", "Texture", "TextureView", "Sampler", "BindGroupLayout", "PipelineLayout",
     "BindGroup", "ShaderModule", "ComputePipeline", "RenderPipeline", "RenderBundle"}

\* lib.rs 8-9: the resources that are not refcounted
Refcounted(kind) == kind \notin {"BindGroupLayout", "ShaderModule"}

\* the arms of process() that begin with self.device_maintain_ids
MaintainsIds(kind) ==
    kind \in {"Buffer",             \* 139
              "Texture",            \* 146
              "TextureView",        \* 157
              "Sampler",            \* 164
              "PipelineLayout",     \* 186
              "BindGroup",          \* 194
              "ComputePipeline",    \* 219
              "RenderPipeline"}     \* 227

\* the call on Global that creates a resource of the kind
CreateCall(kind) ==
    IF kind = "Buffer" THEN "device_create_buffer"
    ELSE IF kind = "Texture" THEN "device_create_texture"
    ELSE IF kind = "TextureView" THEN "texture_create_view"
    ELSE IF kind = "Sampler" THEN "device_create_sampler"
    ELSE IF kind = "BindGroupLayout" THEN "device_create_bind_group_layout"
    ELSE IF kind = "PipelineLayout" THEN "device_create_pipeline_layout"
    ELSE IF kind = "BindGroup" THEN "device_create_bind_group"
    ELSE IF kind = "ShaderModule" THEN "device_create_shader_module"
    ELSE IF kind = "ComputePipeline" THEN "device_create_compute_pipeline"
    ELSE IF kind = "RenderPipeline" THEN "device_create_render_pipeline"
    ELSE "render_bundle_encoder_finish"

\* device_maintain_ids: the IDs of dropped resources are reclaimed
device_maintain_ids(ids) == [k \in DOMAIN ids |-> IF ids[k] = "pending" THEN "free" ELSE ids[k]]

InUse(ids) == Cardinality({k \in DOMAIN ids : ids[k] # "free"})

\* A::Create*(id, ..)
play_create(kind) ==
    LET maintained == IF MaintainsIds(kind) THEN device_maintain_ids(pl_ids) ELSE pl_ids
    IN
    /\ pl_ids[kind] # "live"
    /\ InUse(pl_ids) < MaxResources \/ pl_ids[kind] = "pending"
    /\ pl_action' = [action |-> "Create", kind |-> kind]
    /\ pl_calls' = (IF MaintainsIds(kind) THEN <<"device_maintain_ids">> ELSE <<>>)
                        \o <<CreateCall(kind)>>
    /\ pl_collision' = (pl_collision \/ maintained[kind] # "free")
    /\ pl_ids' = [maintained EXCEPT ![kind] = "live"]
    /\ UNCHANGED playOthers

\* A::Destroy*(id): the ID of a refcounted resource waits for reclamation
play_destroy(kind) ==
    /\ pl_ids[kind] = "live"
    /\ pl_action' = [action |-> "Destroy", kind |-> kind]
    /\ pl_calls' = <<"drop">>
    /\ pl_ids' = [pl_ids EXCEPT ![kind] = IF Refcounted(kind) THEN "pending" ELSE "free"]
    /\ UNCHANGED pl_collision
    /\ UNCHANGED playOthers

\* A::WriteBuffer, A::WriteTexture, A::Submit: the command encoder of a
\* Submit takes its ID from comb_manager, not from the trace
play_queue(action) ==
    /\ pl_action' = [action |-> action, kind |-> "none"]
    /\ pl_calls' = IF action = "WriteBuffer" THEN <<"queue_write_buffer">>
                   ELSE IF action = "WriteTexture" THEN <<"queue_write_texture">>
                   ELSE <<"device_create_command_encoder", "queue_submit">>
    /\ UNCHANGED <<pl_ids, pl_collision>>
    /\ UNCHANGED playOthers

-----------------------------------------------------------------------------
Init ==
    /\ rc_count = 1
    /\ rc_alloc = "live"
    /\ rc_frees = 0
    /\ rc_uaf = FALSE
    /\ rc_panic = FALSE
    /\ rc_held = [t \in Threads |-> IF t = "t1" THEN 1 ELSE 0]
    /\ rc_pc = [t \in Threads |-> "idle"]
    /\ rc_ret = [t \in Threads |-> "none"]
    /\ lg_guard = LifeGuard_new
    /\ lg_max = 0
    /\ lg_prev = 0
    /\ lg_ret = TRUE
    /\ active_submission_index = 0
    /\ pending_writes = PendingWrites_new
    /\ temp_suspected = <<>>
    /\ trackers = [b \in Buffers |-> {}]
    /\ buffers = [b \in Buffers |->
                    [live |-> TRUE, life_guard |-> LifeGuard_new, map_state |-> "Idle"]]
    /\ command_buffers = [c \in CommandBuffers |->
                    [registered |-> TRUE, raw |-> CmdRecorded(c), used_swap_chain |-> TRUE]]
    /\ swap_chain = [acquired_view_id |-> FALSE, acquired_framebuffers |-> 0,
                     active_submission_index |-> 0]
    /\ queue_log = <<>>
    /\ gpu_done = 0
    /\ life_tracker = <<>>
    /\ staging_count = 0
    /\ textures = [x \in Textures |-> [life_guard |-> LifeGuard_new]]
    /\ texture_trackers = [x \in Textures |-> {}]
    /\ lk_op = [t \in Threads |-> "idle"]
    /\ lk_pc = [t \in Threads |-> 0]
    /\ lk_held = [t \in Threads |-> <<>>]
    /\ copy_call = NoCopyCall
    /\ copy_ret = [err |-> "none", stage |-> <<>>]
    /\ math_call = [op |-> "none", a |-> 0, b |-> 0, c |-> 0, checked |-> FALSE]
    /\ math_ret = [err |-> "none", value |-> 0]
    /\ gcd_in = [a |-> 0, b |-> 0]
    /\ gcd_a = 0
    /\ gcd_b = 0
    /\ gcd_pc = "idle"
    /\ gcd_ret = 0
    /\ trace = <<>>
    /\ trace_commands = [c \in CommandBuffers |-> TRUE]
    /\ pl_ids = [k \in ResourceKinds |-> "free"]
    /\ pl_action = [action |-> "none", kind |-> "none"]
    /\ pl_calls = <<>>
    /\ pl_collision = FALSE

RcNext ==
    \/ \E t \in Threads : rc_clone(t)
    \/ \E t \in Threads : rc_drop_fetch_sub(t)
    \/ \E t \in Threads : rc_drop_free(t)
    \/ \E t, u \in Threads : rc_send(t, u)

LgNext ==
    \/ \E k \in 0..MaxIndex : lg_use_at(k)
    \/ lg_take_ref

Next ==
    \/ \E c \in WriteCalls :
            queue_write_buffer(c.queue_ok, c.buffer_id, c.buffer_offset, c.data_size,
                               c.fail, c.checked)
    \/ \E c \in SubmitCalls : queue_submit(c.queue_ok, c.command_buffer_ids, c.fail)
    \/ buffer_drop("b1")
    \/ swap_chain_get_next_texture
    \/ gpu_complete
    \/ device_maintain

\* The write paths and the flush of PendingWrites: both writes, and
\* queue_submit with an empty batch or an unknown command buffer.
FlushCalls == {c \in SubmitCalls : c.command_buffer_ids \in {<<>>, <<"c0">>}}

WritesNext ==
    \/ \E c \in AllWriteCalls :
            queue_write_buffer(c.queue_ok, c.buffer_id, c.buffer_offset, c.data_size,
                               c.fail, c.checked)
    \/ \E c \in TextureCalls :
            queue_write_texture(c.queue_ok, c.texture, c.size, c.rows_per_image,
                                c.fail, c.checked)
    \/ \E c \in FlushCalls : queue_submit(c.queue_ok, c.command_buffer_ids, c.fail)
    \/ buffer_drop("b1")
    \/ gpu_complete
    \/ device_maintain

SwapCalls == {c \in SubmitCalls : c.queue_ok /\ c.fail = "none"}

\* queue_submit against a swap chain whose frames are acquired and presented
SwapNext ==
    \/ \E c \in SwapCalls : queue_submit(c.queue_ok, c.command_buffer_ids, c.fail)
    \/ swap_chain_get_next_texture
    \/ swap_chain_present
    \/ gpu_complete
    \/ device_maintain

\* Submission against buffer mapping: queue_submit of one recorded command
\* buffer while the owner maps, unmaps and drops the buffer it uses.
MapCalls ==
    {c \in SubmitCalls : /\ c.queue_ok
                         /\ c.fail \in {"none", "unmap_buffer"}
                         /\ c.command_buffer_ids \in {<<"c1">>, <<"c2">>}}

MapNext ==
    \/ \E c \in MapCalls : queue_submit(c.queue_ok, c.command_buffer_ids, c.fail)
    \/ buffer_map_step("b1")
    \/ buffer_drop("b1")
    \/ swap_chain_get_next_texture
    \/ gpu_complete
    \/ device_maintain

\* Threads calling the three queue operations concurrently
LocksNext ==
    \/ \E t \in Threads : \E op \in LockOps : lk_call(t, op)
    \/ \E t \in Threads : lk_acquire(t)
    \/ \E t \in Threads : lk_release(t)
    \/ \E t \in Threads : lk_return(t)

\* a thread inside a call keeps running, and the locks are eventually fair
\* to a waiting thread
LocksFairness ==
    \A t \in Threads : SF_vars(lk_acquire(t) \/ lk_release(t) \/ lk_return(t))

\* queue_write_texture filling its staging buffer
CopyNext ==
    \/ \E c \in CopyCalls : write_texture_copy(c)

\* the arithmetic of the row pitch
MathNext ==
    \/ \E a, b \in 1..MaxArg : \E checked \in BOOLEAN : lowest_common_denom_call(a, b, checked)
    \/ \E bytes_per_block \in BlockSizes : \E blocks \in 1..MaxBlocks :
       \E alignment \in PitchAlignments : \E checked \in BOOLEAN :
            stage_bytes_per_row_call(bytes_per_block, blocks, alignment, checked)

\* the staging layout of a texture write, for every block size
BlocksNext ==
    \/ \E block_width, block_height \in BlockExtents :
       \E size \in BlockCopySizes(block_width, block_height) :
       \E images \in 0..1 :
            stage_size_call(size, size.height + images * block_height,
                            block_width, block_height)

\* get_greatest_common_divisor called and run to its return
GcdNext ==
    \/ \E a, b \in 0..MaxArg : gcd_enter(a, b)
    \/ gcd_iterate

\* the operations on a device that records a trace
TraceNext ==
    \/ \E c \in TraceWriteCalls :
            queue_write_buffer_traced(c.queue_ok, c.buffer_id, c.buffer_offset, c.data_size,
                                      c.fail, c.checked)
    \/ \E c \in TraceTextureCalls :
            queue_write_texture_traced(c.queue_ok, c.texture, c.size, c.rows_per_image,
                                       c.fail, c.checked)
    \/ \E c \in TraceSubmitCalls :
            queue_submit_traced(c.queue_ok, c.command_buffer_ids, c.fail)
    \/ swap_chain_get_next_texture

\* the player replaying the actions of a trace
PlayerNext ==
    \/ \E kind \in ResourceKinds : play_create(kind)
    \/ \E kind \in ResourceKinds : play_destroy(kind)
    \/ \E action \in {"WriteBuffer", "WriteTexture", "Submit"} : play_queue(action)

Spec == Init /\ [][Next]_vars
SpecPlayer == Init /\ [][PlayerNext]_vars
SpecTrace == Init /\ [][TraceNext]_vars
SpecMath == Init /\ [][MathNext]_vars
SpecBlocks == Init /\ [][BlocksNext]_vars
SpecGcd == Init /\ [][GcdNext]_vars
SpecGcdFair == Init /\ [][GcdNext]_vars /\ WF_vars(gcd_iterate)
SpecCopy == Init /\ [][CopyNext]_vars
SpecLocks == Init /\ [][LocksNext]_vars
SpecLocksFair == Init /\ [][LocksNext]_vars /\ LocksFairness
SpecMap == Init /\ [][MapNext]_vars
SpecSwapChain == Init /\ [][SwapNext]_vars
SpecWrites == Init /\ [][WritesNext]_vars
SpecRefCount == Init /\ [][RcNext]_vars
SpecLifeGuard == Init /\ [][LgNext]_vars

-----------------------------------------------------------------------------
(***************************************************************************)
(* Claims                                                                  *)
(***************************************************************************)
RcQuiescent == LiveClones = 0 /\ \A t \in Threads : rc_pc[t] = "idle"
RcReleasing == Cardinality({t \in Threads : rc_pc[t] = "free"})

\* C1: under every interleaving of clone and drop the counter's allocation is
\* released exactly once: never twice, at most one drop is ever on its way to
\* release it, and once every clone has been dropped it has been released.
C1_ReleasedExactlyOnce ==
    /\ rc_frees + RcReleasing <= 1
    /\ RcQuiescent => rc_frees = 1
    /\ Cardinality({t \in Threads : rc_ret[t] = "true"}) = rc_frees

\* C1 witness: two threads have dropped clones and the last drop has released
C1_Witness ==
    /\ RcQuiescent
    /\ rc_frees = 1
    /\ rc_ret["t1"] = "false"
    /\ rc_ret["t2"] = "true"
    /\ rc_ret["t3"] = "false"

\* C2: the allocation is never released while a clone is live: until the
\* release the counter equals the number of live clones, only the drop that
\* leaves no live clone releases, and nothing touches the released Box.
C2_NeverReleasedWhileLive ==
    /\ rc_alloc = "live" => rc_count = LiveClones
    /\ (rc_alloc = "freed" \/ RcReleasing > 0) => LiveClones = 0
    /\ ~rc_uaf

\* C2 witness: three clones spread over the threads, counter at three
C2_Witness ==
    /\ rc_alloc = "live"
    /\ rc_count = 3
    /\ rc_held["t2"] >= 1
    /\ rc_held["t3"] >= 1

\* C4: the stored last-use index is the maximum index use_at was ever given
C4_LastUseIsMax == lg_guard.submission_index = lg_max

-----------------------------------------------------------------------------
\* what each call of the model would leave behind in the current state
WritePostOf(c) ==
    WriteBufferPost(c.queue_ok, c.buffer_id, c.buffer_offset, c.data_size, c.fail, c.checked)
SubmitPostOf(c) == SubmitPost(c.queue_ok, c.command_buffer_ids, c.fail)

\* a step that is the call c
WriteStep(c) ==
    queue_write_buffer(c.queue_ok, c.buffer_id, c.buffer_offset, c.data_size, c.fail, c.checked)
SubmitStep(c) == queue_submit(c.queue_ok, c.command_buffer_ids, c.fail)

Last(seq) == seq[Len(seq)]

\* the buffers a native submission reads or writes
UsesOfRaw(raw) ==
    IF raw.kind = "pending" THEN {raw.body[j].dst : j \in 1..Len(raw.body)}
    ELSE {UsedBuffers(raw.cb)[j] : j \in 1..Len(UsedBuffers(raw.cb))}
UsesOf(submission) ==
    UNION {UsesOfRaw(submission.command_buffers[j]) :
                j \in 1..Len(submission.command_buffers)}

\* the submission records a maintenance pass would retire now
Retired == {i \in 1..Len(life_tracker) : FenceSignaled(life_tracker[i], gpu_done)}
SuspectedIn(record) == {record.suspected[j] : j \in 1..Len(record.suspected)}

\* C3: a maintenance pass run once the fence of submission K has signaled
\* destroys every buffer on K's suspected list whose last-use index is K and
\* no other buffer, and no destroyed buffer is used by, or has the last-use
\* index of, a submission the native queue has not completed.
C3_ReclaimsOnlyRetired ==
    /\ LET after == maintain(life_tracker, buffers, gpu_done).bufs
       IN  \A b \in Buffers :
             (buffers[b].live /\ ~after[b].live) <=>
                (buffers[b].live /\ \E i \in Retired :
                    /\ b \in SuspectedIn(life_tracker[i])
                    /\ buffers[b].life_guard.submission_index = life_tracker[i].index)
    /\ \A i \in 1..Len(queue_log) : \A b \in Buffers :
            ~buffers[b].live =>
                /\ b \notin UsesOf(queue_log[i])
                /\ buffers[b].life_guard.submission_index # queue_log[i].index

\* C3 witness: b1 was reclaimed after its last submission retired, while a
\* later submission is still in flight
C3_Witness ==
    /\ ~buffers["b1"].live
    /\ queue_log # <<>>

WriteValidationErrors ==
    {"UnalignedBufferOffset", "UnalignedCopySize", "MissingCopyDstUsageFlag", "BufferOverrun"}

\* C5: a queue_write_buffer call that fails validation allocates no staging
\* buffer and leaves PendingWrites exactly as it was.
C5_FailedWriteHasNoSideEffect ==
    [][\A c \in WriteCalls :
            (WriteStep(c) /\ WritePostOf(c).err \in WriteValidationErrors) =>
                UNCHANGED <<staging_count, pending_writes>>]_vars

\* C6: a queue_write_buffer call that fails with MissingCopyDstUsageFlag
\* leaves the device tracker unchanged.
C6_MissingCopyDstLeavesTracker ==
    [][\A c \in WriteCalls :
            (WriteStep(c) /\ WritePostOf(c).err = "MissingCopyDstUsageFlag") =>
                UNCHANGED trackers]_vars

\* C7: a queue_submit call that fails with InvalidCommandBuffer or
\* SwapChainOutputDropped leaves active_submission_index, the open
\* PendingWrites command buffer, the device tracker and every last-use index
\* as they were.
C7_FailedSubmitLeavesState ==
    [][\A c \in SubmitCalls :
            (/\ SubmitStep(c)
             /\ SubmitPostOf(c).err \in {"InvalidCommandBuffer", "SwapChainOutputDropped"}) =>
                /\ UNCHANGED <<active_submission_index, trackers>>
                /\ pending_writes'.command_buffer = pending_writes.command_buffer
                /\ \A b \in Buffers :
                        buffers'[b].life_guard.submission_index
                            = buffers[b].life_guard.submission_index]_vars

\* the destination, offset and size the claim C8 speaks of
AlignedAndFits(c) ==
    /\ c.queue_ok
    /\ BufferResolves(c.buffer_id)
    /\ "COPY_DST" \in BufferUsageOf(c.buffer_id)
    /\ c.buffer_offset % COPY_BUFFER_ALIGNMENT = 0
    /\ c.data_size % COPY_BUFFER_ALIGNMENT = 0
    /\ c.buffer_offset + c.data_size <= BufferSizeOf(c.buffer_id)

Staged(c) ==
    LET post == WritePostOf(c)
    IN  /\ post.err = "Ok"
        /\ post.trackers[c.buffer_id] = {"COPY_DST"}
        /\ post.pending_writes.command_buffer.some
        /\ Len(post.pending_writes.temp_buffers) = Len(pending_writes.temp_buffers) + 1

\* C8 as stated: every queue_write_buffer call with aligned offset and size
\* that fits a COPY_DST destination succeeds, leaves the destination tracked
\* as COPY_DST, an open command buffer and one more staging buffer.
C8_AlignedWriteStages == \A c \in WriteCalls : AlignedAndFits(c) => Staged(c)

\* C8 as amended: the same for calls whose data is not empty and whose
\* staging allocation the native layer does not refuse.
C8_NonEmptyAlignedWriteStages ==
    \A c \in WriteCalls :
        (AlignedAndFits(c) /\ c.data_size > 0 /\ c.fail = "none") => Staged(c)

\* C8 witness: two writes to b1 were staged
C8_Witness ==
    /\ pending_writes.command_buffer.some
    /\ Len(pending_writes.command_buffer.cmds) = 2
    /\ Len(pending_writes.temp_buffers) = 2
    /\ trackers["b1"] = {"COPY_DST"}

\* the order C9 gives the native submission: the pending-writes command
\* buffer if one is open, then for each named command buffer its transit
\* buffer followed by what it recorded
StitchedInOrder(seq, pending, ids) ==
    LET off == IF pending.some THEN 1 ELSE 0
    IN  /\ Len(seq) = off + 2 * Len(ids)
        /\ pending.some => seq[1].kind = "pending" /\ seq[1].body = pending.cmds
        /\ \A i \in 1..Len(ids) :
                /\ seq[off + 2 * i - 1].kind = "transit"
                /\ seq[off + 2 * i - 1].cb = ids[i]
                /\ seq[off + 2 * i] = CmdRecorded(ids[i])[1]

\* C9: queue_write_buffer hands nothing to the native queue, and a
\* queue_submit that reaches the native queue hands it the pending-writes
\* command buffer first and then the batch in caller order, each transit
\* buffer right before the buffers its command buffer recorded.
C9_SubmissionOrder ==
    [][/\ \A c \in WriteCalls : WriteStep(c) => UNCHANGED queue_log
       /\ \A c \in SubmitCalls :
            (SubmitStep(c) /\ SubmitPostOf(c).native) =>
                StitchedInOrder(Last(queue_log').command_buffers,
                                pending_writes.command_buffer, c.command_buffer_ids)]_vars

StrictlyIncreasing(seq) == \A i \in 1..(Len(seq) - 1) : seq[i].index < seq[i + 1].index

\* C10: every queue_submit call on the device takes active_submission_index
\* + 1 as its index and stores it back; the indices of the submission
\* records, and of the submissions handed to the native queue, are strictly
\* increasing, so no two share one.
C10_IndicesIncrease ==
    /\ \A c \in SubmitCalls :
            c.queue_ok =>
                LET post == SubmitPostOf(c)
                IN  /\ post.active_submission_index = active_submission_index + 1
                    /\ post.native =>
                            Last(post.queue_log).index = active_submission_index + 1
    /\ StrictlyIncreasing(life_tracker)
    /\ StrictlyIncreasing(queue_log)
    /\ \A i \in 1..Len(life_tracker) : life_tracker[i].index <= active_submission_index
    /\ \A i \in 1..Len(queue_log) : queue_log[i].index <= active_submission_index

\* C10 witness: two submissions are on record, with indices 1 and 2
C10_Witness ==
    /\ Len(life_tracker) = 2
    /\ life_tracker[1].index = 1
    /\ life_tracker[2].index = 2
    /\ active_submission_index = 2

\* a step that is the texture write c
TexturePostOf(c) ==
    WriteTexturePost(c.queue_ok, c.texture, c.size, c.rows_per_image, c.fail, c.checked)
TextureStopOf(c) ==
    WriteTextureStop(c.queue_ok, c.texture, c.size, c.rows_per_image, c.fail, c.checked)
TextureStep(c) ==
    queue_write_texture(c.queue_ok, c.texture, c.size, c.rows_per_image, c.fail, c.checked)

\* the last-use index of a buffer or a texture
LastUseOf(id) ==
    IF id \in Buffers THEN buffers[id].life_guard.submission_index
    ELSE textures[id].life_guard.submission_index

\* the destinations of the copies in the open PendingWrites command buffer
PendingDestinations ==
    {pending_writes.command_buffer.cmds[j].dst :
        j \in 1..Len(pending_writes.command_buffer.cmds)}

\* C11: the last-use index a successful queue_write_buffer or
\* queue_write_texture records on its destination is
\* active_submission_index + 1, it stays the destination's last-use index
\* while the copy waits in PendingWrites, and it is the index of the native
\* submission in which the next queue_submit carries the pending-writes
\* command buffer.
C11_WriteLastUseIsNextSubmission ==
    /\ \A c \in WriteCalls :
            LET post == WritePostOf(c)
            IN  (post.err = "Ok" /\ c.data_size > 0) =>
                    post.buffers[c.buffer_id].life_guard.submission_index
                        = next_submission_index(active_submission_index)
    /\ \A c \in TextureCalls :
            TextureStopOf(c) = "Ok" =>
                TexturePostOf(c).textures[c.texture].life_guard.submission_index
                    = next_submission_index(active_submission_index)
    /\ \A d \in PendingDestinations :
            LastUseOf(d) = next_submission_index(active_submission_index)
    /\ \A c \in SubmitCalls :
            LET post == SubmitPostOf(c)
            IN  (post.native /\ pending_writes.command_buffer.some) =>
                    \A d \in PendingDestinations : LastUseOf(d) = Last(post.queue_log).index

\* C11 witness: a native submission carries a buffer copy and a texture copy
\* staged before it, and its index is the last-use index of both
C11_Witness ==
    /\ queue_log # <<>>
    /\ Head(queue_log).command_buffers # <<>>
    /\ Head(queue_log).command_buffers[1].kind = "pending"
    /\ UsesOfRaw(Head(queue_log).command_buffers[1]) = {"b1", "x1"}
    /\ LastUseOf("b1") = Head(queue_log).index
    /\ LastUseOf("x1") = Head(queue_log).index

\* C12: after every queue_submit call on the device PendingWrites has no
\* open command buffer and no staging buffer, the staging buffers gathered
\* since the previous submit having moved into the submission record made
\* for the new index.
C12_FlushedAtEverySubmit ==
    [][\A c \in SubmitCalls :
            (SubmitStep(c) /\ c.queue_ok) =>
                /\ ~pending_writes'.command_buffer.some
                /\ pending_writes'.temp_buffers = <<>>
                /\ pending_writes.temp_buffers # <<>> =>
                        /\ life_tracker' # <<>>
                        /\ Last(life_tracker').index = active_submission_index'
                        /\ Last(life_tracker').temp_buffers = pending_writes.temp_buffers]_vars

\* whether an external owner of a buffer or a texture exists
HasOwner(id) ==
    IF id \in Buffers THEN buffers[id].life_guard.ref_count
    ELSE textures[id].life_guard.ref_count

\* the buffers the command buffers of a batch have used
BatchBuffers(ids) ==
    UNION {{UsedBuffers(ids[i])[j] : j \in 1..Len(UsedBuffers(ids[i]))} : i \in 1..Len(ids)}

\* C13: a queue_submit that issues submission K leaves K as the last-use
\* index of every resource touched by the batch or by the flushed
\* pending-writes command buffer, and the suspected list of K holds exactly
\* those of them that have no external owner.
C13_SuspectedExactlyUnowned ==
    [][\A c \in SubmitCalls :
            (SubmitStep(c) /\ SubmitPostOf(c).native) =>
                LET touched == PendingDestinations \cup BatchBuffers(c.command_buffer_ids)
                IN  /\ \A b \in touched \cap Buffers :
                            buffers'[b].life_guard.submission_index = active_submission_index'
                    /\ \A x \in touched \cap Textures :
                            textures'[x].life_guard.submission_index = active_submission_index'
                    /\ {temp_suspected'[j] : j \in 1..Len(temp_suspected')}
                            = {r \in touched : ~HasOwner(r)}]_vars

\* C14: use_at(i) applied to a LifeGuard stores i as its submission index,
\* returns whether the LifeGuard holds its RefCount, and leaves the RefCount
\* as it was.
C14_UseAtRecordsAndReports ==
    \A i \in 0..MaxIndex :
        /\ use_at(lg_guard, i).submission_index = i
        /\ use_at(lg_guard, i).ref_count = lg_guard.ref_count
        /\ use_at_ret(lg_guard) <=> lg_guard.ref_count

\* C14 witness: use_at(3) ran after the owner gave up its handle and
\* returned false
C14_Witness ==
    /\ ~lg_guard.ref_count
    /\ ~lg_ret
    /\ lg_guard.submission_index = 3

\* C15: queue_write_buffer with no data returns Ok and changes nothing: no
\* staging buffer is created and PendingWrites, the device tracker and the
\* last-use indices stay as they were, for every offset and for every
\* destination handle, resolving or not, with or without COPY_DST.
C15_EmptyWriteIsNoOp ==
    \A c \in WriteCalls :
        (c.queue_ok /\ c.data_size = 0) =>
            LET post == WritePostOf(c)
            IN  /\ post.err = "Ok"
                /\ post.staging_count = staging_count
                /\ post.pending_writes = pending_writes
                /\ post.trackers = trackers
                /\ post.buffers = buffers
                /\ post.queue_log = queue_log

\* C15 witness: PendingWrites is open and an empty write to the unknown
\* handle b0 at the unaligned offset 3 returns Ok
C15_Witness ==
    /\ pending_writes.command_buffer.some
    /\ staging_count < MaxStaging
    /\ \E c \in WriteCalls :
            /\ c.queue_ok /\ c.data_size = 0 /\ c.buffer_id = "b0" /\ c.buffer_offset = 3
            /\ WritePostOf(c).err = "Ok"

\* an extent with a zero dimension
ZeroExtent(size) == size.width = 0 \/ size.height = 0 \/ size.depth = 0

\* C16: queue_write_texture with an extent of zero width, height or depth
\* on a destination that resolves returns at the zero-extent test: no
\* arithmetic on the extent, no staging buffer, and PendingWrites and the
\* tracker unchanged.
C16_ZeroExtentIsNoOp ==
    [][\A c \in TextureCalls :
            (/\ TextureStep(c)
             /\ c.queue_ok /\ TextureResolves(c.texture) /\ ZeroExtent(c.size)) =>
                /\ TextureStopOf(c) = "Ignored"
                /\ UNCHANGED <<staging_count, pending_writes, texture_trackers>>]_vars

\* the buffer copies recorded in a PendingWrites command buffer
BufferCopies(pw) ==
    {pw.command_buffer.cmds[j] : j \in {k \in 1..Len(pw.command_buffer.cmds) :
                                            pw.command_buffer.cmds[k].dst \in Buffers}}

\* C17: a queue_write_buffer call that passes the checks before the range
\* check fails with BufferOverrun whenever buffer_offset + data_size, as a
\* sum of naturals, exceeds the size of the destination; and no copy in
\* PendingWrites ends past the end of its destination.
C17_OverrunIsRejected ==
    [][\A c \in AllWriteCalls :
            WriteStep(c) =>
                /\ (/\ c.queue_ok /\ c.fail = "none" /\ c.data_size > 0
                     /\ BufferResolves(c.buffer_id)
                     /\ "COPY_DST" \in BufferUsageOf(c.buffer_id)
                     /\ c.data_size % COPY_BUFFER_ALIGNMENT = 0
                     /\ c.buffer_offset % COPY_BUFFER_ALIGNMENT = 0
                     /\ c.buffer_offset + c.data_size > BufferSizeOf(c.buffer_id)) =>
                        WritePostOf(c).err = "BufferOverrun"
                /\ \A copy \in BufferCopies(pending_writes') :
                        copy.offset + copy.size <= BufferSizeOf(copy.dst)]_vars

\* the buffers used by the command buffers of a batch that are mapped or
\* waiting to be mapped
MappedInBatch(ids) ==
    {b \in Buffers : /\ buffers[b].live
                     /\ buffers[b].map_state # "Idle"
                     /\ \E i \in 1..Len(ids) : \E j \in 1..Len(UsedBuffers(ids[i])) :
                            UsedBuffers(ids[i])[j] = b}

\* C18: a queue_submit whose command buffer is registered, whose swap chain
\* frame is acquired, and which uses a buffer whose map_state is not Idle
\* returns BufferAccess.
C18_MappedBufferIsBufferAccess ==
    [][\A c \in MapCalls :
            (/\ SubmitStep(c)
             /\ \A i \in 1..Len(c.command_buffer_ids) :
                    command_buffers[c.command_buffer_ids[i]].registered
             /\ swap_chain.acquired_view_id
             /\ \A b \in Buffers : buffers[b].live
             /\ MappedInBatch(c.command_buffer_ids) # {}) =>
                SubmitPostOf(c).err = "BufferAccess"]_vars

\* the hub tables and the tracker, ranked in the order the claim names them
ClaimedRank(lock) ==
    IF lock = "devices" THEN 1
    ELSE IF lock = "swap_chains" THEN 2
    ELSE IF lock = "command_buffers" THEN 3
    ELSE IF lock \in {"bind_groups", "compute_pipelines", "render_pipelines", "samplers"} THEN 4
    ELSE IF lock = "buffers" THEN 5
    ELSE IF lock \in {"textures", "texture_views"} THEN 6
    ELSE IF lock = "trackers" THEN 7
    ELSE 0

\* the same, ranked in the order queue_submit acquires them
AcquiredRank(lock) ==
    IF lock = "devices" THEN 1
    ELSE IF lock = "swap_chains" THEN 2
    ELSE IF lock = "command_buffers" THEN 3
    ELSE IF lock \in {"bind_groups", "compute_pipelines", "render_pipelines"} THEN 4
    ELSE IF lock = "buffers" THEN 5
    ELSE IF lock \in {"textures", "texture_views"} THEN 6
    ELSE IF lock = "samplers" THEN 7
    ELSE IF lock = "trackers" THEN 8
    ELSE 0

\* C19 as stated: the guards a thread holds on hub tables and the tracker
\* were acquired in the order device, swap chain, command-buffer table,
\* bind-group/pipeline/sampler tables, buffer table, texture/texture-view
\* tables, tracker.
C19_ClaimedLockOrder ==
    \A t \in Threads : \A i, j \in 1..Len(lk_held[t]) :
        (/\ i < j
         /\ ClaimedRank(lk_held[t][i].lock) > 0
         /\ ClaimedRank(lk_held[t][j].lock) > 0) =>
            ClaimedRank(lk_held[t][i].lock) <= ClaimedRank(lk_held[t][j].lock)

\* C19, amended: the guards a thread holds on hub tables and the tracker
\* were acquired in the order device, swap chain, command-buffer table,
\* bind-group/pipeline tables, buffer table, texture/texture-view tables,
\* sampler table, tracker.
C19_AcquiredLockOrder ==
    \A t \in Threads : \A i, j \in 1..Len(lk_held[t]) :
        (/\ i < j
         /\ AcquiredRank(lk_held[t][i].lock) > 0
         /\ AcquiredRank(lk_held[t][j].lock) > 0) =>
            AcquiredRank(lk_held[t][i].lock) <= AcquiredRank(lk_held[t][j].lock)

C19_Witness ==
    \E t \in Threads :
        /\ lk_op[t] = "submit"
        /\ Len(lk_held[t]) = 11
        /\ lk_held[t][10].lock = "samplers"
        /\ lk_held[t][11].lock = "trackers"

\* thread t waits for a guard held by thread u
WaitsFor(t, u) ==
    /\ lk_op[t] # "idle"
    /\ HasNextStep(t)
    /\ NextStep(t).release = 0
    /\ HoldsAgainst(u, NextStep(t))

\* a cycle of waiting threads, a thread waiting for itself included
CyclicWait ==
    \E t \in Threads :
        \/ WaitsFor(t, t)
        \/ \E u \in Threads \ {t} :
            \/ WaitsFor(t, u) /\ WaitsFor(u, t)
            \/ \E v \in Threads \ {t, u} :
                    WaitsFor(t, u) /\ WaitsFor(u, v) /\ WaitsFor(v, t)

\* C20: threads calling queue_write_buffer, queue_write_texture and
\* queue_submit concurrently never reach a cyclic wait, and every call
\* eventually returns with all its guards released.
C20_NoDeadlock ==
    /\ []~CyclicWait
    /\ \A t \in Threads : (lk_op[t] # "idle") ~> (lk_op[t] = "idle" /\ lk_held[t] = <<>>)

C20_Witness ==
    \E t, u \in Threads :
        /\ t # u
        /\ lk_op[t] = "submit" /\ lk_op[u] = "write_buffer"
        /\ Len(lk_held[t]) = 11
        /\ WaitsFor(u, t)

\* the state queue_submit starts its loop over command_buffer_ids with
StitchStart ==
    [cb |-> command_buffers, sc |-> swap_chain, bufs |-> buffers,
     trk |-> trackers, susp |-> <<>>, signal |-> <<>>, err |-> "Ok"]

\* the state after the first k command buffers of ids went through the loop
StitchedPrefix(ids, k) ==
    StitchAll(StitchStart, SubSeq(ids, 1, k),
              next_submission_index(active_submission_index), "none")

\* the usage a tracker holds for b once the command buffers of ids, in
\* order, have each left their exit state for what they touched
ExitStates(trk, ids) ==
    [b \in DOMAIN trk |->
        LET touching == {i \in 1..Len(ids) : b \in DOMAIN CmdTrackers(ids[i])}
        IN  IF touching = {} THEN trk[b]
            ELSE CmdTrackers(ids[CHOOSE i \in touching : \A j \in touching : j <= i])[b].last]

\* the transitions into the entry state of command buffer cmb_id from the
\* usages held in trk
EntryTransitions(trk, cmb_id) ==
    {[id |-> b, from |-> trk[b], to |-> CmdTrackers(cmb_id)[b].first] :
        b \in {x \in DOMAIN CmdTrackers(cmb_id) :
                    ~((trk[x] \cup CmdTrackers(cmb_id)[x].first) \subseteq ReadOnlyUses)}}

\* the set of transitions of a native command buffer
TransitionsOf(raw) == {raw.body[j] : j \in 1..Len(raw.body)}

\* C21: command buffer k of a batch is stitched against the device tracker
\* as the command buffers 1..k-1 of the same batch left it: its transit
\* buffer, put in front of its own buffers, holds the transitions from
\* their exit states into its entry state, and afterwards the device
\* tracker holds its exit state for every buffer it touched.
C21_StitchedInCallerOrder ==
    \A ids \in Batches : \A k \in 1..Len(ids) :
        LET before == StitchedPrefix(ids, k - 1)
            after == StitchedPrefix(ids, k)
        IN  after.err = "Ok" =>
                /\ before.trk = ExitStates(trackers, SubSeq(ids, 1, k - 1))
                /\ after.trk = ExitStates(trackers, SubSeq(ids, 1, k))
                /\ \A b \in DOMAIN CmdTrackers(ids[k]) :
                        after.trk[b] = CmdTrackers(ids[k])[b].last
                /\ after.cb[ids[k]].raw[1].kind = "transit"
                /\ TransitionsOf(after.cb[ids[k]].raw[1])
                        = EntryTransitions(before.trk, ids[k])

\* C21 witness: a submission of c1 and c2 reached the queue; c2's transit
\* buffer moves b1 out of the exit state of c1, and the device tracker holds
\* the exit state of c2
C21_Witness ==
    /\ queue_log # <<>>
    /\ \E i, j \in 1..Len(Last(queue_log).command_buffers) :
            LET raw == Last(queue_log).command_buffers
            IN  /\ i < j
                /\ raw[i].kind = "user" /\ raw[i].cb = "c1"
                /\ raw[j].kind = "transit" /\ raw[j].cb = "c2"
                /\ [id |-> "b1", from |-> {"STORAGE_STORE"}, to |-> {"COPY_DST"}]
                        \in TransitionsOf(raw[j])
    /\ trackers["b1"] = {"STORAGE_LOAD"}

\* the transitions of buffer b in a list of native command buffers, in
\* order, each with the command buffer its transit buffer was made for
RECURSIVE TransitionsOn(_, _)
TransitionsOn(raws, b) ==
    IF raws = <<>> THEN <<>>
    ELSE LET raw == Head(raws)
             own == IF raw.kind = "transit"
                    THEN SelectSeq(raw.body, LAMBDA tr : tr.id = b) ELSE <<>>
         IN  [j \in 1..Len(own) |-> [cb |-> raw.cb, from |-> own[j].from, to |-> own[j].to]]
                \o TransitionsOn(Tail(raws), b)

\* batches of two command buffers that both write b1
WriteWriteBatches == {<<"c1", "c2">>, <<"c2", "c1">>}

\* C22: when a submission of two command buffers that both write b1 reaches
\* the native queue, its transit buffers hold exactly one transition of b1
\* per command buffer, in submission order: the first out of the usage the
\* device tracker held before the call into the first command buffer's
\* entry state, the second out of the first command buffer's exit state.
C22_OneTransitionPerUsageChange ==
    [][\A c \in SubmitCalls :
            (/\ SubmitStep(c)
             /\ c.command_buffer_ids \in WriteWriteBatches
             /\ SubmitPostOf(c).native) =>
                LET ids == c.command_buffer_ids
                    T == TransitionsOn(Last(queue_log').command_buffers, "b1")
                IN  /\ Len(T) = 2
                    /\ T[1].cb = ids[1] /\ T[2].cb = ids[2]
                    /\ T[1].from = trackers["b1"]
                    /\ T[1].to = CmdTrackers(ids[1])["b1"].first
                    /\ T[2].from = CmdTrackers(ids[1])["b1"].last
                    /\ T[2].to = CmdTrackers(ids[2])["b1"].first]_vars

\* the reference copy: block row r of layer l of the data, at
\* (l * block_rows_per_image + r) * bytes_per_row, goes to the same row of the
\* stage, at (l * block_rows_per_image + r) * stage_bytes_per_row
ReferenceCopied(c, stage) ==
    /\ Len(stage) = stage_size(c.size, c.rows_per_image)
    /\ \A r \in CopyRows(c) : \A col \in 0..(bytes_in_row(c.size) - 1) :
            stage[r * stage_bytes_per_row(c.size) + col + 1]
                = DataOf(c)[r * c.bytes_per_row + col + 1]

\* C23: for every call whose layout validate_linear_texture_data accepts,
\* the copy succeeds, on the fast path as on the slow one, and the staging
\* buffer holds every block row of the data where the reference row-by-row
\* copy puts it.
C23_StagedBytesMatchReference ==
    (/\ copy_ret.err # "none"
     /\ validate_linear_texture_data(copy_call.size, copy_call.bytes_per_row,
                                     copy_call.rows_per_image, copy_call.data_len)) =>
        /\ copy_ret.err = "Ok"
        /\ ReferenceCopied(copy_call, copy_ret.stage)

\* the greatest common divisor and the least common multiple of two
\* positive integers, by their definitions
Divides(d, n) == n % d = 0
GreatestCommonDivisor(a, b) ==
    CHOOSE d \in 1..a : /\ Divides(d, a) /\ Divides(d, b)
                        /\ \A e \in 1..a : (Divides(e, a) /\ Divides(e, b)) => e <= d
LeastCommonMultiple(a, b) ==
    CHOOSE m \in 1..(a * b) : /\ Divides(a, m) /\ Divides(b, m)
                              /\ \A n \in 1..(a * b) : (Divides(a, n) /\ Divides(b, n)) => m <= n

\* C24: for positive u32 a and b, get_lowest_common_denom(a, b) returns r
\* with r * gcd(a, b) = a * b; r is the least common multiple of a and b,
\* and the same for (b, a).
C24_LowestCommonDenomIsLcm ==
    math_call.op = "get_lowest_common_denom" =>
        /\ math_ret.err = "Ok"
        /\ math_ret.value * GreatestCommonDivisor(math_call.a, math_call.b)
                = math_call.a * math_call.b
        /\ math_ret.value = LeastCommonMultiple(math_call.a, math_call.b)
        /\ math_ret.value = get_lowest_common_denom(math_call.b, math_call.a)

\* C25: the staging row pitch is the smallest multiple of
\* lcm(optimal copy-pitch alignment, block byte size) that is not below the
\* natural row size bytes_per_block * width_blocks; it is a multiple of the
\* larger of the two and not smaller than the natural row size.
C25_RowPitchIsAlignedNaturalRow ==
    math_call.op = "stage_bytes_per_row" =>
        LET bytes_per_block == math_call.a
            natural == math_call.a * math_call.b
            alignment == math_call.c
            lcm == LeastCommonMultiple(alignment, bytes_per_block)
        IN  /\ math_ret.err = "Ok"
            /\ Divides(lcm, math_ret.value)
            /\ math_ret.value >= natural
            /\ math_ret.value - lcm < natural
            /\ Divides(IF alignment > bytes_per_block THEN alignment ELSE bytes_per_block,
                       math_ret.value)

\* the call in progress was made with a >= b >= 1
GcdArgumentsOrdered == gcd_in.a >= gcd_in.b /\ gcd_in.b >= 1

\* C26: called with a >= b >= 1, get_greatest_common_divisor keeps
\* a >= b > 0 at the head of its loop, makes b smaller with every pass,
\* returns, and what it returns is the greatest common divisor of its
\* arguments.
C26_GcdLoop ==
    /\ [](GcdArgumentsOrdered =>
            /\ gcd_pc # "panic"
            /\ gcd_pc = "loop" => (gcd_a >= gcd_b /\ gcd_b > 0)
            /\ gcd_pc = "done" => gcd_ret = GreatestCommonDivisor(gcd_in.a, gcd_in.b))
    /\ [][(gcd_iterate /\ GcdArgumentsOrdered /\ gcd_pc' = "loop") => gcd_b' < gcd_b]_vars
    /\ (gcd_pc = "loop" /\ GcdArgumentsOrdered) ~> (gcd_pc = "done")

\* C26 witness: (6, 4) has gone through the loop twice and returned 2
C26_Witness ==
    /\ gcd_pc = "done"
    /\ gcd_in = [a |-> 6, b |-> 4]
    /\ gcd_a = 4 /\ gcd_b = 2
    /\ gcd_ret = 2

\* the entries a step added to the trace
AddedToTrace == {trace'[k] : k \in (Len(trace) + 1)..Len(trace')}

\* C27: every action a call adds to the trace is added while the engine
\* state (active_submission_index, PendingWrites, trackers, last-use
\* indices, command buffers) is still as it was when the call began, and
\* adding it leaves the command buffers' recorded commands in place.
C27_TracedBeforeMutation ==
    [][/\ \A e \in AddedToTrace : e.seen = EngineStateNow
       /\ UNCHANGED trace_commands]_vars

\* C28: the player calls device_maintain_ids first whenever it replays
\* the creation of a refcounted resource (any resource but a bind group
\* layout or a shader module), and no creation is given an ID that is
\* still waiting to be reclaimed.
C28_MaintainBeforeCreate ==
    /\ (pl_action.action = "Create" /\ Refcounted(pl_action.kind)) =>
            pl_calls[1] = "device_maintain_ids"
    /\ ~pl_collision

\* the copies of the open PendingWrites command buffer went to the native
\* queue with the submission a queue_submit step made
PendingHandedOver ==
    /\ Len(queue_log') = Len(queue_log) + 1
    /\ Last(queue_log').command_buffers # <<>>
    /\ Last(queue_log').command_buffers[1].kind = "pending"
    /\ Last(queue_log').command_buffers[1].body = pending_writes.command_buffer.cmds

\* C29: a write that returns Ok adds its copy to the open PendingWrites
\* command buffer behind the copies already there; a write that returns an
\* error leaves that command buffer as it was; and a queue_submit that
\* returns an error either leaves it as it was or has handed its copies to
\* the native queue.
C29_NoAcceptedWriteLost ==
    [][/\ \A c \in AllWriteCalls :
            WriteStep(c) =>
                /\ (WritePostOf(c).err = "Ok" /\ c.data_size > 0) =>
                        /\ pending_writes'.command_buffer.some
                        /\ Len(pending_writes'.command_buffer.cmds)
                                = Len(pending_writes.command_buffer.cmds) + 1
                        /\ SubSeq(pending_writes'.command_buffer.cmds, 1,
                                  Len(pending_writes.command_buffer.cmds))
                                = pending_writes.command_buffer.cmds
                /\ WritePostOf(c).err \notin {"Ok", "Panic"} =>
                        pending_writes'.command_buffer = pending_writes.command_buffer
       /\ \A c \in TextureCalls :
            (TextureStep(c) /\ TexturePostOf(c).err \notin {"Ok", "Panic"}) =>
                pending_writes'.command_buffer = pending_writes.command_buffer
       /\ \A c \in FlushCalls :
            (/\ SubmitStep(c)
             /\ SubmitPostOf(c).err \notin {"Ok", "Panic"}
             /\ pending_writes.command_buffer.some) =>
                \/ pending_writes'.command_buffer = pending_writes.command_buffer
                \/ PendingHandedOver]_vars

\* C30: a queue_submit that has handed a submission to the native queue
\* leaves, on every return that follows, a submission record in the life
\* tracker with the index of that submission, its fence, the suspected list
\* of the call and the staging buffers drained from PendingWrites.
C30_QueuedSubmissionIsTracked ==
    [][\A c \in SubmitCalls :
            (SubmitStep(c) /\ SubmitPostOf(c).native) =>
                /\ life_tracker' # <<>>
                /\ Last(life_tracker').index = Last(queue_log').index
                /\ Last(life_tracker').index = active_submission_index'
                /\ Last(life_tracker').fence = gpu_done + Len(queue_log) + 1
                /\ Last(life_tracker').suspected = temp_suspected'
                /\ Last(life_tracker').temp_buffers = pending_writes.temp_buffers
                /\ pending_writes'.temp_buffers = <<>>]_vars

\* the recorded (user) command buffers of c in the submissions handed to the
\* native queue so far
RECURSIVE RecordedIn(_, _)
RecordedIn(raws, c) ==
    IF raws = <<>> THEN 0
    ELSE (IF Head(raws).kind = "user" /\ Head(raws).cb = c THEN 1 ELSE 0)
            + RecordedIn(Tail(raws), c)

RECURSIVE PhysicalSubmits(_, _)
PhysicalSubmits(log, c) ==
    IF log = <<>> THEN 0
    ELSE RecordedIn(Head(log).command_buffers, c) + PhysicalSubmits(Tail(log), c)

NamesUnregistered(ids) ==
    \E i \in 1..Len(ids) :
        ids[i] \in CommandBuffers /\ ~command_buffers[ids[i]].registered

\* C31: a queue_submit that returns Ok leaves every command buffer it named
\* unregistered; a later queue_submit that names an unregistered command
\* buffer hands nothing to the native queue and, when that id is the first it
\* meets, returns InvalidCommandBuffer; and the recorded commands of a
\* command buffer are in the native submissions at most once.
C31_SubmittedAtMostOnce ==
    [][\A c \in SubmitCalls :
            SubmitStep(c) =>
                /\ SubmitPostOf(c).err = "Ok" =>
                        \A i \in 1..Len(c.command_buffer_ids) :
                            c.command_buffer_ids[i] \in CommandBuffers
                                => ~command_buffers'[c.command_buffer_ids[i]].registered
                /\ (c.queue_ok /\ NamesUnregistered(c.command_buffer_ids)) =>
                        /\ ~SubmitPostOf(c).native
                        /\ NamesUnregistered(<<Head(c.command_buffer_ids)>>)
                                => SubmitPostOf(c).err = "InvalidCommandBuffer"
                /\ \A cb \in CommandBuffers : PhysicalSubmits(queue_log', cb) <= 1]_vars

UsesSwapChain(ids) ==
    \E i \in 1..Len(ids) :
        /\ ids[i] \in CommandBuffers
        /\ command_buffers[ids[i]].registered
        /\ command_buffers[ids[i]].used_swap_chain

\* C32: no submission signals the swap chain's semaphore more than once; a
\* queue_submit that reaches the native queue signals it only when the
\* swap chain had no acquired framebuffer before the call and a command
\* buffer of the batch uses the swap chain, and never while a framebuffer
\* acquired by an earlier submission is still held.
C32_SwapChainSignalledOnce ==
    /\ [](\A i \in 1..Len(queue_log) : queue_log[i].signal \in {<<>>, <<"sc">>})
    /\ [][\A c \in SwapCalls :
            (SubmitStep(c) /\ SubmitPostOf(c).native) =>
                /\ Last(queue_log').signal = <<"sc">> =>
                        /\ swap_chain.acquired_framebuffers = 0
                        /\ UsesSwapChain(c.command_buffer_ids)
                /\ swap_chain.acquired_framebuffers > 0 => Last(queue_log').signal = <<>>]_vars

C32_Witness ==
    /\ Len(queue_log) = 2
    /\ queue_log[1].signal = <<"sc">>
    /\ \E i, j \in 1..Len(queue_log[1].command_buffers) :
            /\ queue_log[1].command_buffers[i] = [kind |-> "user", cb |-> "c1", body |-> <<>>]
            /\ queue_log[1].command_buffers[j].kind = "transit"
    /\ queue_log[2].signal = <<>>
    /\ \E i \in 1..Len(queue_log[2].command_buffers) :
            queue_log[2].command_buffers[i] = [kind |-> "user", cb |-> "c2", body |-> <<>>]
    /\ swap_chain.acquired_framebuffers = 2

\* C33: for a format of any block size, queue_write_texture stages
\* size.height / block_height block rows per depth layer, and its staging
\* buffer has stage_bytes_per_row * ((depth - 1) * block_rows_per_image
\* + size.height / block_height) bytes.
C33_BlockRowsUseBlockHeight ==
    math_call.op = "stage_size" =>
        /\ math_ret.height_blocks = math_call.size.height \div math_call.block_height
        /\ math_ret.value =
                math_ret.stage_bytes_per_row
                    * ((math_call.size.depth - 1)
                            * (math_call.rows_per_image \div math_call.block_height)
                       + math_call.size.height \div math_call.block_height)

=============================================================================
